---- MODULE Spec2Model ----
(***************************************************************************)
(* Ledger engine of the PFS budget tracker: accounts, transactions         *)
(* (money movements) and categories, with the integrity rules of the       *)
(* CRUD, transfer and reconciliation operations.                           *)
(*                                                                         *)
(* Representation.  Ids are the numeric strings produced by nextId; they   *)
(* are modelled by the natural number they denote, and the empty string    *)
(* '' by 0.  Dates are YYYY-MM-DD strings, whose string order is the       *)
(* calendar order; a well-formed date is modelled by a positive day        *)
(* number and a malformed or empty date by 0.  Free text is a sequence of  *)
(* characters so that trim() is computed, not assumed.  An error is the    *)
(* sequence of its message parts.                                          *)
(***************************************************************************)
EXTENDS Integers, Sequences, FiniteSets, TLC

VARIABLES
  store,   \* the ledger held in memory
  files,   \* the data directory: the file, if any, under each path
  call,    \* the atomicWriteFile call in progress and the process running it
  codec,   \* a record on its way through serialize and deserialize
  heap,    \* the arrays of a ledger snapshot and of the last operation's result
  manager  \* the store manager of the server: where it is, and its calls

vars == <<store, files, call, codec, heap, manager>>

----------------------------------------------------------------------------
(* Bounds of the model *)

MaxAccountId == 2
MaxCategoryId == 2
MaxTxId == 3
MaxTx == 3
MaxLoadedTx == 2
MaxCalls == 2

----------------------------------------------------------------------------
(* Types *)

TRANSACTION_TYPES == {"income", "expense", "transfer"}

NoId == 0

NoDate == 0

Today == 2

Now == "now"

----------------------------------------------------------------------------
(* Generic helpers: Array.prototype.some / findIndex / filter / map *)

Range(s) == {s[i] : i \in DOMAIN s}

Ids(records) == {records[i].id : i \in DOMAIN records}

Some(records, id) == \E i \in DOMAIN records : records[i].id = id

\* findIndex((r) => r.id === id): first matching index, 0 when the code gets -1
FindIndex(records, id) ==
  IF Some(records, id)
    THEN CHOOSE i \in DOMAIN records :
           /\ records[i].id = id
           /\ \A j \in DOMAIN records : records[j].id = id => i <= j
    ELSE 0

\* find((r) => r.id === id), used only where Some(records, id) was established
Find(records, id) == records[FindIndex(records, id)]

Max(S) == IF S = {} THEN 0 ELSE CHOOSE m \in S : \A n \in S : n <= m

\* Variant: the sign of the amount is kept
AbsMissing(n) == n

Abs(n) == IF n < 0 THEN -n ELSE n

RECURSIVE TrimStart(_)
TrimStart(s) ==
  IF s # <<>> /\ Head(s) = " " THEN TrimStart(Tail(s)) ELSE s

RECURSIVE TrimEnd(_)
TrimEnd(s) ==
  IF s # <<>> /\ s[Len(s)] = " " THEN TrimEnd(SubSeq(s, 1, Len(s) - 1)) ELSE s

\* String.prototype.trim
Trim(s) == TrimEnd(TrimStart(s))

RECURSIVE SumSeq(_)
SumSeq(s) == IF s = <<>> THEN 0 ELSE Head(s) + SumSeq(Tail(s))

----------------------------------------------------------------------------
(* Result *)

Ok(value) == [ok |-> TRUE, value |-> value]

Err(error) == [ok |-> FALSE, error |-> error]

----------------------------------------------------------------------------
(* ids.ts *)

\* A generator that counts the records instead of reading their ids
nextIdByCount(records) == Len(records) + 1

nextId(records) == Max(Ids(records)) + 1

----------------------------------------------------------------------------
(* validators.ts: the list of fields that fail.  Amounts and balances are *)
(* always numbers in the inputs of this model.                            *)

validateTransaction(data) ==
  (IF data.type \notin TRANSACTION_TYPES THEN <<"type">> ELSE <<>>) \o
  (IF data.accountId = NoId THEN <<"accountId">> ELSE <<>>) \o
  (IF data.date = NoDate THEN <<"date">> ELSE <<>>)

ACCOUNT_TYPES ==
  {"cash", "checking", "credit_card", "loan", "savings", "asset", "crypto"}

validateAccount(data) ==
  (IF Trim(data.name) = <<>> THEN <<"name">> ELSE <<>>) \o
  (IF data.type \notin ACCOUNT_TYPES THEN <<"type">> ELSE <<>>) \o
  (IF Trim(data.currency) = <<>> THEN <<"currency">> ELSE <<>>)

validateCategory(data) ==
  (IF Trim(data.name) = <<>> THEN <<"name">> ELSE <<>>) \o
  (IF Trim(data.group) = <<>> THEN <<"group">> ELSE <<>>)

----------------------------------------------------------------------------
(* transactions.ts *)

Undefined == "undefined"

\* `${t.date}|${t.accountId}|${t.amount}|${t.description}`
deduplicationKey(t) == <<t.date, t.accountId, t.amount, t.description>>

\* Variant: the reconciliation marker is never cleared
clearReconciledNever(accounts, accountId) == accounts

\* Variant: every reconciliation marker of the ledger is cleared
clearReconciledEverywhere(accounts, accountId) ==
  [i \in DOMAIN accounts |-> [accounts[i] EXCEPT !.reconciled = NoDate]]

clearReconciledForAccount(accounts, accountId) ==
  [i \in DOMAIN accounts |->
     IF accounts[i].id = accountId /\ accounts[i].reconciled # NoDate
       THEN [accounts[i] EXCEPT !.reconciled = NoDate]
       ELSE accounts[i]]

createTransaction(s, data) ==
  LET validation == validateTransaction(data)
      categoryId == data.categoryId
      id == nextId(s.transactions)
      transaction ==
        [id |-> id,
         type |-> data.type,
         accountId |-> data.accountId,
         date |-> data.date,
         categoryId |-> categoryId,
         description |-> Trim(data.description),
         payee |-> Trim(data.payee),
         transferPairId |-> NoId,
         amount |-> data.amount,
         notes |-> Trim(data.notes),
         source |-> IF data.source = Undefined THEN "manual" ELSE data.source,
         createdAt |-> Now]
      accounts == clearReconciledForAccount(s.accounts, data.accountId)
  IN  IF validation # <<>> THEN Err(validation)
      ELSE IF ~Some(s.accounts, data.accountId) THEN Err(<<"Account not found">>)
      ELSE IF categoryId # NoId /\ ~Some(s.categories, categoryId)
        THEN Err(<<"Category not found">>)
      ELSE Ok([s EXCEPT !.accounts = accounts,
                        !.transactions = Append(s.transactions, transaction)])

\* changes.f !== undefined
Has(changes, f) == f \in DOMAIN changes

\* { ...existing, ...(changes.f !== undefined ? { f: changes.f } : {}) }
Merge(existing, changes) ==
  [f \in DOMAIN existing |-> IF Has(changes, f) THEN changes[f] ELSE existing[f]]

\* Variant: members of a transfer pair are updated like any other movement
transferGuardOff(existing, changes) == <<>>

\* The guard on a member of a transfer pair: the message of the first field
\* of changes it rejects, <<>> when it rejects none.
transferGuard(existing, changes) ==
  IF existing.transferPairId = NoId THEN <<>>
  ELSE IF Has(changes, "type")
    THEN <<"Cannot change type on a transfer transaction">>
  ELSE IF Has(changes, "amount")
    THEN <<"Cannot change amount on a transfer transaction">>
  ELSE IF Has(changes, "accountId")
    THEN <<"Cannot change accountId on a transfer transaction">>
  ELSE <<>>

updateTransaction(s, id, changes) ==
  LET index == FindIndex(s.transactions, id)
      existing == s.transactions[index]
      merged == Merge(existing, changes)
      validation == validateTransaction(merged)
      updated ==
        [existing EXCEPT
           !.type = merged.type,
           !.accountId = merged.accountId,
           !.date = merged.date,
           !.categoryId = merged.categoryId,
           !.description = Trim(merged.description),
           !.payee = Trim(merged.payee),
           !.amount = merged.amount,
           !.notes = Trim(merged.notes)]
      transactions == [s.transactions EXCEPT ![index] = updated]
      accounts1 == clearReconciledForAccount(s.accounts, existing.accountId)
      accounts ==
        IF Has(changes, "accountId") /\ changes.accountId # existing.accountId
          THEN clearReconciledForAccount(accounts1, changes.accountId)
          ELSE accounts1
  IN  IF index = 0 THEN Err(<<"Transaction not found">>)
      ELSE IF transferGuard(existing, changes) # <<>>
        THEN Err(transferGuard(existing, changes))
      ELSE IF validation # <<>> THEN Err(validation)
      ELSE IF Has(changes, "accountId") /\ ~Some(s.accounts, changes.accountId)
        THEN Err(<<"Account not found">>)
      ELSE IF /\ Has(changes, "categoryId")
              /\ changes.categoryId # NoId
              /\ ~Some(s.categories, changes.categoryId)
        THEN Err(<<"Category not found">>)
      ELSE Ok([s EXCEPT !.accounts = accounts, !.transactions = transactions])

RECURSIVE ClearAll(_, _)
ClearAll(accounts, accountIds) ==
  IF accountIds = {} THEN accounts
  ELSE LET a == CHOOSE x \in accountIds : TRUE
       IN  ClearAll(clearReconciledForAccount(accounts, a), accountIds \ {a})

\* Variant: the pair of a transfer member is left behind
deleteTransactionAlone(s, id) ==
  LET index == FindIndex(s.transactions, id)
      transaction == s.transactions[index]
      transactions == SelectSeq(s.transactions, LAMBDA t : t.id # id)
      accounts == clearReconciledForAccount(s.accounts, transaction.accountId)
  IN  IF index = 0 THEN Err(<<"Transaction not found">>)
      ELSE Ok([s EXCEPT !.accounts = accounts, !.transactions = transactions])

deleteTransaction(s, id) ==
  LET index == FindIndex(s.transactions, id)
      transaction == s.transactions[index]
      idsToDelete ==
        IF transaction.transferPairId # NoId
          THEN {id, transaction.transferPairId}
          ELSE {id}
      transactions == SelectSeq(s.transactions, LAMBDA t : t.id \notin idsToDelete)
      affectedAccountIds ==
        {Find(s.transactions, tid).accountId :
           tid \in {x \in idsToDelete : Some(s.transactions, x)}}
      accounts == ClearAll(s.accounts, affectedAccountIds)
  IN  IF index = 0 THEN Err(<<"Transaction not found">>)
      ELSE Ok([s EXCEPT !.accounts = accounts, !.transactions = transactions])

\* Variant: the reconciliation marker of the account is cleared whether or
\* not a movement was imported
bulkImportAlwaysClearing(s, data) ==
  IF ~Some(s.accounts, data.accountId) THEN Err(<<"Account not found">>)
  ELSE Ok([s EXCEPT !.accounts =
                      clearReconciledForAccount(s.accounts, data.accountId)])

\* Variant: a candidate that fails validation aborts the batch
bulkImportAborting(s, data) ==
  IF ~Some(s.accounts, data.accountId) THEN Err(<<"Account not found">>)
  ELSE IF \E i \in DOMAIN data.transactions :
            data.transactions[i].date = NoDate
       THEN Err(<<"Invalid transaction">>)
  ELSE Ok(s)

\* Variant: the key of an imported candidate is not remembered
existingKeysKept(existingKeys, key) == existingKeys

\* existingKeys.add(key)
existingKeysAdd(existingKeys, key) == existingKeys \cup {key}

\* One pass of the for-loop of bulkImportTransactions over data.transactions:
\* st carries newTransactions, nextIdValue and existingKeys.
RECURSIVE ImportLoop(_, _, _, _, _)
ImportLoop(s, accountId, reconciledDate, inputs, st) ==
  IF inputs = <<>> THEN st
  ELSE
    LET input == Head(inputs)
        rest == Tail(inputs)
        fullInput == [type |-> input.type, accountId |-> accountId,
                      date |-> input.date, amount |-> input.amount]
        categoryId == input.categoryId
        key == deduplicationKey([date |-> input.date, accountId |-> accountId,
                                 amount |-> input.amount,
                                 description |-> input.description])
        transaction ==
          [id |-> st.nextIdValue,
           type |-> input.type,
           accountId |-> accountId,
           date |-> input.date,
           categoryId |-> IF categoryId # NoId /\ Some(s.categories, categoryId)
                            THEN categoryId ELSE NoId,
           description |-> Trim(input.description),
           payee |-> Trim(input.payee),
           transferPairId |-> NoId,
           amount |-> input.amount,
           notes |-> Trim(input.notes),
           source |-> IF input.source = Undefined THEN "import" ELSE input.source,
           createdAt |-> Now]
    IN  IF reconciledDate # NoDate /\ input.date < reconciledDate
          THEN ImportLoop(s, accountId, reconciledDate, rest, st)
        ELSE IF validateTransaction(fullInput) # <<>>
          THEN ImportLoop(s, accountId, reconciledDate, rest, st)
        ELSE IF key \in st.existingKeys
          THEN ImportLoop(s, accountId, reconciledDate, rest, st)
        ELSE ImportLoop(s, accountId, reconciledDate, rest,
               [newTransactions |-> Append(st.newTransactions, transaction),
                nextIdValue |-> st.nextIdValue + 1,
                existingKeys |-> existingKeysAdd(st.existingKeys, key)])

bulkImportTransactions(s, data) ==
  LET account == Find(s.accounts, data.accountId)
      existingKeys ==
        {deduplicationKey(s.transactions[i]) :
           i \in {j \in DOMAIN s.transactions :
                    s.transactions[j].accountId = data.accountId}}
      st == ImportLoop(s, data.accountId, account.reconciled, data.transactions,
              [newTransactions |-> <<>>,
               nextIdValue |-> nextId(s.transactions),
               existingKeys |-> existingKeys])
      accounts == clearReconciledForAccount(s.accounts, data.accountId)
  IN  IF ~Some(s.accounts, data.accountId) THEN Err(<<"Account not found">>)
      ELSE IF Len(st.newTransactions) = 0 THEN Ok(s)
      ELSE Ok([s EXCEPT !.accounts = accounts,
                        !.transactions = s.transactions \o st.newTransactions])

----------------------------------------------------------------------------
(* transfers.ts *)

ClearBoth(accounts, a1, a2) ==
  [i \in DOMAIN accounts |->
     IF (accounts[i].id = a1 \/ accounts[i].id = a2) /\ accounts[i].reconciled # NoDate
       THEN [accounts[i] EXCEPT !.reconciled = NoDate]
       ELSE accounts[i]]

\* Variant: a transfer from an account to itself is accepted
createTransferSameAccount(s, data) ==
  LET absAmount == Abs(data.amount)
      baseId == nextId(s.transactions)
      outflowId == baseId
      inflowId == baseId + 1
      outflow ==
        [id |-> outflowId,
         type |-> "transfer",
         accountId |-> data.fromAccountId,
         date |-> data.date,
         categoryId |-> NoId,
         description |-> Trim(data.description),
         payee |-> <<>>,
         transferPairId |-> inflowId,
         amount |-> -absAmount,
         notes |-> Trim(data.notes),
         source |-> "manual",
         createdAt |-> Now]
      inflow ==
        [id |-> inflowId,
         type |-> "transfer",
         accountId |-> data.toAccountId,
         date |-> data.date,
         categoryId |-> NoId,
         description |-> Trim(data.description),
         payee |-> <<>>,
         transferPairId |-> outflowId,
         amount |-> absAmount,
         notes |-> Trim(data.notes),
         source |-> "manual",
         createdAt |-> Now]
      accounts == ClearBoth(s.accounts, data.fromAccountId, data.toAccountId)
  IN  IF data.fromAccountId = NoId THEN Err(<<"fromAccountId is required">>)
      ELSE IF data.toAccountId = NoId THEN Err(<<"toAccountId is required">>)
      ELSE IF data.date = NoDate THEN Err(<<"Date must be in YYYY-MM-DD format">>)
      ELSE IF data.amount = 0 THEN Err(<<"Amount must be a non-zero number">>)
      ELSE IF ~Some(s.accounts, data.fromAccountId) THEN Err(<<"Account not found">>)
      ELSE IF ~Some(s.accounts, data.toAccountId) THEN Err(<<"Account not found">>)
      ELSE Ok([s EXCEPT !.accounts = accounts,
                        !.transactions = s.transactions \o <<outflow, inflow>>])

createTransfer(s, data) ==
  LET absAmount == Abs(data.amount)
      baseId == nextId(s.transactions)
      outflowId == baseId
      inflowId == baseId + 1
      outflow ==
        [id |-> outflowId,
         type |-> "transfer",
         accountId |-> data.fromAccountId,
         date |-> data.date,
         categoryId |-> NoId,
         description |-> Trim(data.description),
         payee |-> <<>>,
         transferPairId |-> inflowId,
         amount |-> -absAmount,
         notes |-> Trim(data.notes),
         source |-> "manual",
         createdAt |-> Now]
      inflow ==
        [id |-> inflowId,
         type |-> "transfer",
         accountId |-> data.toAccountId,
         date |-> data.date,
         categoryId |-> NoId,
         description |-> Trim(data.description),
         payee |-> <<>>,
         transferPairId |-> outflowId,
         amount |-> absAmount,
         notes |-> Trim(data.notes),
         source |-> "manual",
         createdAt |-> Now]
      accounts == ClearBoth(s.accounts, data.fromAccountId, data.toAccountId)
  IN  IF data.fromAccountId = NoId THEN Err(<<"fromAccountId is required">>)
      ELSE IF data.toAccountId = NoId THEN Err(<<"toAccountId is required">>)
      ELSE IF data.fromAccountId = data.toAccountId
        THEN Err(<<"Cannot transfer to the same account">>)
      ELSE IF data.date = NoDate THEN Err(<<"Date must be in YYYY-MM-DD format">>)
      ELSE IF data.amount = 0 THEN Err(<<"Amount must be a non-zero number">>)
      ELSE IF ~Some(s.accounts, data.fromAccountId) THEN Err(<<"Account not found">>)
      ELSE IF ~Some(s.accounts, data.toAccountId) THEN Err(<<"Account not found">>)
      ELSE Ok([s EXCEPT !.accounts = accounts,
                        !.transactions = s.transactions \o <<outflow, inflow>>])

\* Variant: the pair receives the amount without the change of sign
syncTransferAmountSameSign(s, id, newAmount) ==
  LET index == FindIndex(s.transactions, id)
      transaction == s.transactions[index]
      pairIndex == FindIndex(s.transactions, transaction.transferPairId)
      transactions1 == [s.transactions EXCEPT ![index].amount = newAmount]
      transactions == [transactions1 EXCEPT ![pairIndex].amount = newAmount]
      accounts == ClearBoth(s.accounts, transactions[index].accountId,
                            transactions[pairIndex].accountId)
  IN  IF index = 0 THEN Err(<<"Transaction not found">>)
      ELSE IF transaction.transferPairId = NoId
        THEN Err(<<"Transaction is not a transfer">>)
      ELSE IF pairIndex = 0 THEN Err(<<"Transfer pair not found">>)
      ELSE Ok([s EXCEPT !.accounts = accounts, !.transactions = transactions])

syncTransferAmount(s, id, newAmount) ==
  LET index == FindIndex(s.transactions, id)
      transaction == s.transactions[index]
      pairIndex == FindIndex(s.transactions, transaction.transferPairId)
      transactions1 == [s.transactions EXCEPT ![index].amount = newAmount]
      transactions == [transactions1 EXCEPT ![pairIndex].amount = -newAmount]
      accounts == ClearBoth(s.accounts, transactions[index].accountId,
                            transactions[pairIndex].accountId)
  IN  IF index = 0 THEN Err(<<"Transaction not found">>)
      ELSE IF transaction.transferPairId = NoId
        THEN Err(<<"Transaction is not a transfer">>)
      ELSE IF pairIndex = 0 THEN Err(<<"Transfer pair not found">>)
      ELSE Ok([s EXCEPT !.accounts = accounts, !.transactions = transactions])

\* Variant: the pair is kept, still pointing at the converted movement
unlinkTransferKeepingPair(s, id, newType) ==
  LET index == FindIndex(s.transactions, id)
      transaction == s.transactions[index]
      transactions ==
        [s.transactions EXCEPT ![index].type = newType,
                               ![index].transferPairId = NoId]
      accounts == clearReconciledForAccount(s.accounts, transaction.accountId)
  IN  IF index = 0 THEN Err(<<"Transaction not found">>)
      ELSE IF transaction.transferPairId = NoId
        THEN Err(<<"Transaction is not a transfer">>)
      ELSE Ok([s EXCEPT !.accounts = accounts, !.transactions = transactions])

\* Variant: only the account of the converted movement is cleared
unlinkTransferOwnAccount(s, id, newType) ==
  LET index == FindIndex(s.transactions, id)
      transaction == s.transactions[index]
      pairId == transaction.transferPairId
      transactions1 == SelectSeq(s.transactions, LAMBDA t : t.id # pairId)
      txIndex == FindIndex(transactions1, id)
      transactions ==
        [transactions1 EXCEPT ![txIndex].type = newType,
                              ![txIndex].transferPairId = NoId]
      accounts == clearReconciledForAccount(s.accounts, transaction.accountId)
  IN  IF index = 0 THEN Err(<<"Transaction not found">>)
      ELSE IF transaction.transferPairId = NoId
        THEN Err(<<"Transaction is not a transfer">>)
      ELSE Ok([s EXCEPT !.accounts = accounts, !.transactions = transactions])

unlinkTransfer(s, id, newType) ==
  LET index == FindIndex(s.transactions, id)
      transaction == s.transactions[index]
      pairId == transaction.transferPairId
      hasPair == Some(s.transactions, pairId)
      transactions1 == SelectSeq(s.transactions, LAMBDA t : t.id # pairId)
      txIndex == FindIndex(transactions1, id)
      transactions ==
        [transactions1 EXCEPT ![txIndex].type = newType,
                              ![txIndex].transferPairId = NoId]
      affectedAccountIds ==
        {transaction.accountId} \cup
        (IF hasPair THEN {Find(s.transactions, pairId).accountId} ELSE {})
      accounts ==
        [i \in DOMAIN s.accounts |->
           IF s.accounts[i].id \in affectedAccountIds /\ s.accounts[i].reconciled # NoDate
             THEN [s.accounts[i] EXCEPT !.reconciled = NoDate]
             ELSE s.accounts[i]]
  IN  IF index = 0 THEN Err(<<"Transaction not found">>)
      ELSE IF transaction.transferPairId = NoId
        THEN Err(<<"Transaction is not a transfer">>)
      ELSE Ok([s EXCEPT !.accounts = accounts, !.transactions = transactions])

----------------------------------------------------------------------------
(* accounts.ts *)

\* Variant: the movements of every account are summed
calculateBalanceOfAll(accountId, transactions) ==
  SumSeq([i \in DOMAIN transactions |-> transactions[i].amount])

calculateWorkingBalance(accountId, transactions) ==
  SumSeq([i \in DOMAIN SelectSeq(transactions, LAMBDA t : t.accountId = accountId) |->
            SelectSeq(transactions, LAMBDA t : t.accountId = accountId)[i].amount])

\* String.prototype.toUpperCase on the letters used for currency codes
UpperChar(c) ==
  CASE c = "u" -> "U" [] c = "s" -> "S" [] c = "d" -> "D" [] OTHER -> c

ToUpperCase(str) == [i \in DOMAIN str |-> UpperChar(str[i])]

createAccount(s, data) ==
  LET validation == validateAccount(data)
      id == nextId(s.accounts)
      account ==
        [id |-> id,
         name |-> Trim(data.name),
         type |-> data.type,
         currency |-> ToUpperCase(Trim(data.currency)),
         institution |-> Trim(data.institution),
         balance |-> data.balance,
         hidden |-> FALSE,
         reconciled |-> NoDate,
         createdAt |-> Now]
  IN  IF validation # <<>> THEN Err(validation)
      ELSE Ok([s EXCEPT !.accounts = Append(s.accounts, account)])

updateAccount(s, id, changes) ==
  LET index == FindIndex(s.accounts, id)
      existing == s.accounts[index]
      merged == Merge(existing, changes)
      validation == validateAccount(merged)
      updated ==
        [existing EXCEPT
           !.name = Trim(merged.name),
           !.type = merged.type,
           !.currency = ToUpperCase(Trim(merged.currency)),
           !.institution = Trim(merged.institution),
           !.balance = merged.balance]
  IN  IF index = 0 THEN Err(<<"Account not found">>)
      ELSE IF validation # <<>> THEN Err(validation)
      ELSE Ok([s EXCEPT !.accounts = [s.accounts EXCEPT ![index] = updated]])

\* Variant: hiding an account also clears its reconciliation marker
hideAccountClearing(s, id) ==
  LET index == FindIndex(s.accounts, id)
  IN  IF index = 0 THEN Err(<<"Account not found">>)
      ELSE Ok([s EXCEPT !.accounts = [s.accounts EXCEPT ![index].hidden = TRUE,
                                                        ![index].reconciled = NoDate]])

hideAccount(s, id) ==
  LET index == FindIndex(s.accounts, id)
  IN  IF index = 0 THEN Err(<<"Account not found">>)
      ELSE Ok([s EXCEPT !.accounts = [s.accounts EXCEPT ![index].hidden = TRUE]])

\* Variant: the account is removed whether or not movements reference it
deleteAccountUnguarded(s, id) ==
  LET index == FindIndex(s.accounts, id)
      accounts == SelectSeq(s.accounts, LAMBDA a : a.id # id)
  IN  IF index = 0 THEN Err(<<"Account not found">>)
      ELSE Ok([s EXCEPT !.accounts = accounts])

\* Variant: a referenced account is refused with the not-found message
deleteAccountOneError(s, id) ==
  LET index == FindIndex(s.accounts, id)
      hasTransactions ==
        \E i \in DOMAIN s.transactions : s.transactions[i].accountId = id
      accounts == SelectSeq(s.accounts, LAMBDA a : a.id # id)
  IN  IF index = 0 \/ hasTransactions THEN Err(<<"Account not found">>)
      ELSE Ok([s EXCEPT !.accounts = accounts])

\* The messages `Account not found: ${id}` and
\* `Cannot delete account ${id}: has associated transactions`, without the id
deleteAccount(s, id) ==
  LET index == FindIndex(s.accounts, id)
      hasTransactions ==
        \E i \in DOMAIN s.transactions : s.transactions[i].accountId = id
      accounts == SelectSeq(s.accounts, LAMBDA a : a.id # id)
  IN  IF index = 0 THEN Err(<<"Account not found">>)
      ELSE IF hasTransactions
        THEN Err(<<"Cannot delete account: has associated transactions">>)
      ELSE Ok([s EXCEPT !.accounts = accounts])

\* result.error.includes('not found')
includesNotFound(error) ==
  \E i \in DOMAIN error :
    error[i] \in {"Account not found", "Transaction not found",
                  "Category not found", "Transfer pair not found"}

NotFoundStatus == 404

ConflictStatus == 409

NoContentStatus == 204

\* accountsRouter.delete with mode=hard: the status of the response
deleteAccountStatus(result) ==
  IF ~result.ok
    THEN IF includesNotFound(result.error) THEN NotFoundStatus ELSE ConflictStatus
    ELSE NoContentStatus

----------------------------------------------------------------------------
(* categories.ts *)

createCategory(s, data) ==
  LET validation == validateCategory(data)
      id == nextId(s.categories)
      category ==
        [id |-> id,
         type |-> data.type,
         name |-> Trim(data.name),
         group |-> Trim(data.group),
         assigned |-> data.assigned,
         hidden |-> FALSE]
  IN  IF validation # <<>> THEN Err(validation)
      ELSE Ok([s EXCEPT !.categories = Append(s.categories, category)])

updateCategory(s, id, changes) ==
  LET index == FindIndex(s.categories, id)
      existing == s.categories[index]
      merged == Merge(existing, changes)
      validation == validateCategory(merged)
      updated ==
        [existing EXCEPT
           !.name = Trim(merged.name),
           !.type = merged.type,
           !.group = Trim(merged.group),
           !.assigned = merged.assigned]
  IN  IF index = 0 THEN Err(<<"Category not found">>)
      ELSE IF validation # <<>> THEN Err(validation)
      ELSE Ok([s EXCEPT !.categories = [s.categories EXCEPT ![index] = updated]])

hideCategory(s, id) ==
  LET index == FindIndex(s.categories, id)
  IN  IF index = 0 THEN Err(<<"Category not found">>)
      ELSE Ok([s EXCEPT !.categories = [s.categories EXCEPT ![index].hidden = TRUE]])

unhideCategory(s, id) ==
  LET index == FindIndex(s.categories, id)
  IN  IF index = 0 THEN Err(<<"Category not found">>)
      ELSE Ok([s EXCEPT !.categories = [s.categories EXCEPT ![index].hidden = FALSE]])

\* Variant: the movements keep the id of the removed category
deleteCategoryKeepingReferences(s, id) ==
  LET index == FindIndex(s.categories, id)
      categories == SelectSeq(s.categories, LAMBDA c : c.id # id)
  IN  IF index = 0 THEN Err(<<"Category not found">>)
      ELSE Ok([s EXCEPT !.categories = categories])

\* Variant: every movement loses its category, not only the referencing ones
deleteCategoryClearingAll(s, id) ==
  LET index == FindIndex(s.categories, id)
      categories == SelectSeq(s.categories, LAMBDA c : c.id # id)
      transactions ==
        [i \in DOMAIN s.transactions |->
           [s.transactions[i] EXCEPT !.categoryId = NoId]]
  IN  IF index = 0 THEN Err(<<"Category not found">>)
      ELSE Ok([s EXCEPT !.categories = categories, !.transactions = transactions])

deleteCategory(s, id) ==
  LET index == FindIndex(s.categories, id)
      categories == SelectSeq(s.categories, LAMBDA c : c.id # id)
      transactions ==
        [i \in DOMAIN s.transactions |->
           IF s.transactions[i].categoryId = id
             THEN [s.transactions[i] EXCEPT !.categoryId = NoId]
             ELSE s.transactions[i]]
  IN  IF index = 0 THEN Err(<<"Category not found">>)
      ELSE Ok([s EXCEPT !.categories = categories, !.transactions = transactions])

----------------------------------------------------------------------------
(* reconcile.ts *)

\* `Balance discrepancy of ${discrepancy} exists. ...`
discrepancyError(discrepancy) ==
  <<"Balance discrepancy of ", ToString(discrepancy), " exists">>

\* Variant: the reported balance is accepted without comparing it
reconcileAccountUnchecked(s, accountId, reportedBalance) ==
  LET index == FindIndex(s.accounts, accountId)
      accounts == [s.accounts EXCEPT ![index].balance = reportedBalance,
                                     ![index].reconciled = Today]
  IN  IF index = 0 THEN Err(<<"Account not found">>)
      ELSE Ok([s EXCEPT !.accounts = accounts])

reconcileAccount(s, accountId, reportedBalance) ==
  LET index == FindIndex(s.accounts, accountId)
      workingBalance == calculateWorkingBalance(accountId, s.transactions)
      discrepancy == reportedBalance - workingBalance
      accounts == [s.accounts EXCEPT ![index].balance = reportedBalance,
                                     ![index].reconciled = Today]
  IN  IF index = 0 THEN Err(<<"Account not found">>)
      ELSE IF discrepancy # 0 THEN Err(discrepancyError(discrepancy))
      ELSE Ok([s EXCEPT !.accounts = accounts])

\* createBalanceAdjustment: one movement for exactly the discrepancy
createBalanceAdjustment(s, accountId, reportedBalance) ==
  LET workingBalance == calculateWorkingBalance(accountId, s.transactions)
      discrepancy == reportedBalance - workingBalance
      transaction ==
        [id |-> nextId(s.transactions),
         type |-> IF discrepancy > 0 THEN "income" ELSE "expense",
         accountId |-> accountId,
         date |-> Today,
         categoryId |-> NoId,
         description |-> <<"B", "a", "l">>,
         payee |-> <<>>,
         transferPairId |-> NoId,
         amount |-> discrepancy,
         notes |-> <<>>,
         source |-> "reconciliation",
         createdAt |-> Now]
      accounts == clearReconciledForAccount(s.accounts, accountId)
  IN  IF ~Some(s.accounts, accountId) THEN Err(<<"Account not found">>)
      ELSE IF discrepancy = 0 THEN Err(<<"No discrepancy">>)
      ELSE Ok([s EXCEPT !.accounts = accounts,
                        !.transactions = Append(s.transactions, transaction)])

----------------------------------------------------------------------------
(* Inputs of the operations *)

AccountIdInputs == 0..MaxAccountId

CategoryIdInputs == 0..(MaxCategoryId + 1)

TxCategoryInputs == {NoId, 1, MaxCategoryId + 1}

TxIdInputs == 1..MaxTxId

Text(name) == <<name>>

CreateAccountInputs ==
  {[name |-> Text("A"), type |-> "checking", currency |-> <<"u", "s", "d">>,
    institution |-> <<>>, balance |-> 0],
   [name |-> Text(" "), type |-> "checking", currency |-> <<"U", "S", "D">>,
    institution |-> <<>>, balance |-> 0]}

UpdateAccountInputs ==
  {[balance |-> 1], [name |-> Text(" ")], [institution |-> <<"I", " ">>]}

CreateCategoryInputs ==
  {[name |-> Text("G"), type |-> "expense", group |-> Text("L"), assigned |-> 0],
   [name |-> <<>>, type |-> "expense", group |-> Text("L"), assigned |-> 0]}

UpdateCategoryInputs ==
  {[assigned |-> 1], [name |-> <<"H", " ">>], [group |-> <<>>]}

CreateTransactionInputs ==
  {[type |-> "expense", accountId |-> a, date |-> d, categoryId |-> c,
    description |-> Text("x"), payee |-> <<>>, amount |-> -1, notes |-> <<>>,
    source |-> Undefined] :
     a \in AccountIdInputs, d \in {NoDate, Today}, c \in TxCategoryInputs} \cup
  {[type |-> "transfer", accountId |-> 1, date |-> Today, categoryId |-> NoId,
    description |-> Text("x"), payee |-> <<>>, amount |-> -1, notes |-> <<>>,
    source |-> Undefined]}

UpdateTransactionInputs ==
  {[type |-> "expense"], [amount |-> -1], [date |-> NoDate],
   [description |-> <<" ", "x">>], << >>} \cup
  {[accountId |-> a] : a \in AccountIdInputs} \cup
  {[categoryId |-> c] : c \in TxCategoryInputs} \cup
  {[date |-> Today, amount |-> -1], [categoryId |-> NoId, type |-> "expense"]}

Candidate(d, desc, c, src) ==
  [type |-> "expense", date |-> d, categoryId |-> c, description |-> desc,
   payee |-> <<>>, amount |-> -1, notes |-> <<>>, source |-> src]

Batches ==
  {<<Candidate(Today, <<"x", " ">>, MaxCategoryId + 1, Undefined)>>,
   <<Candidate(Today - 1, Text("x"), 1, "manual"),
     Candidate(Today, Text("x"), NoId, "manual")>>,
   <<Candidate(Today, Text("x"), NoId, "manual"),
     Candidate(Today, Text("x"), 1, "manual")>>,
   <<Candidate(NoDate, Text("x"), NoId, "manual")>>}

BulkImportInputs ==
  {[accountId |-> a, transactions |-> b] : a \in AccountIdInputs, b \in Batches}

CreateTransferInputs ==
  {[fromAccountId |-> f, toAccountId |-> t, amount |-> m, date |-> d,
    description |-> Text("x"), notes |-> <<>>] :
     f \in AccountIdInputs, t \in AccountIdInputs, m \in {0, 1}, d \in {NoDate, Today}}

TransferAmountInputs == {-1, 0, 1}

SyncAmounts == {2}

SyncAmountInputs == {-2, 0, 2}

UnlinkTypes == {"income", "expense"}

ReportedBalances == {0}

ReportedBalanceInputs == {-1, 0, 1}

----------------------------------------------------------------------------
(* schema.ts: the codec between typed records and raw CSV records.  Here a  *)
(* string is the sequence of its characters and a number read from a        *)
(* string is the decimal fraction m / 10^k it denotes.  Number and toFixed  *)
(* round correctly to 53 bits, so for amounts far below 2^51 the doubles    *)
(* of the code print and round as the decimal fractions do.                 *)

ACCOUNT_SCHEMA ==
  <<[name |-> "id", type |-> "string"], [name |-> "name", type |-> "string"],
    [name |-> "type", type |-> "string"],
    [name |-> "currency", type |-> "string"],
    [name |-> "institution", type |-> "string"],
    [name |-> "balance", type |-> "money"],
    [name |-> "hidden", type |-> "boolean"],
    [name |-> "reconciled", type |-> "string"],
    [name |-> "createdAt", type |-> "string"]>>

TRANSACTION_SCHEMA ==
  <<[name |-> "id", type |-> "string"], [name |-> "type", type |-> "string"],
    [name |-> "accountId", type |-> "string"],
    [name |-> "date", type |-> "string"],
    [name |-> "categoryId", type |-> "string"],
    [name |-> "description", type |-> "string"],
    [name |-> "payee", type |-> "string"],
    [name |-> "transferPairId", type |-> "string"],
    [name |-> "amount", type |-> "money"],
    [name |-> "notes", type |-> "string"],
    [name |-> "source", type |-> "string"],
    [name |-> "createdAt", type |-> "string"]>>

CATEGORY_SCHEMA ==
  <<[name |-> "id", type |-> "string"], [name |-> "name", type |-> "string"],
    [name |-> "group", type |-> "string"],
    [name |-> "assigned", type |-> "money"],
    [name |-> "hidden", type |-> "boolean"]>>

fieldNames(schema) == {schema[i].name : i \in DOMAIN schema}

FieldDef(schema, name) == schema[CHOOSE i \in DOMAIN schema : schema[i].name = name]

DigitChars == <<"0", "1", "2", "3", "4", "5", "6", "7", "8", "9">>

IsDigit(c) == \E d \in DOMAIN DigitChars : DigitChars[d] = c

DigitValue(c) == (CHOOSE d \in DOMAIN DigitChars : DigitChars[d] = c) - 1

RECURSIVE Pow10(_)
Pow10(n) == IF n = 0 THEN 1 ELSE 10 * Pow10(n - 1)

\* The natural number a sequence of digits denotes
RECURSIVE DigitsValue(_)
DigitsValue(digits) ==
  IF digits = <<>> THEN 0
  ELSE 10 * DigitsValue(SubSeq(digits, 1, Len(digits) - 1))
         + DigitValue(digits[Len(digits)])

\* The digits of a natural number, without leading zeros
RECURSIVE Digits(_)
Digits(n) ==
  IF n < 10 THEN <<DigitChars[n + 1]>>
  ELSE Digits(n \div 10) \o <<DigitChars[(n % 10) + 1]>>

\* The last width digits of a natural number, with leading zeros
RECURSIVE PadDigits(_, _)
PadDigits(n, width) ==
  IF width = 0 THEN <<>>
  ELSE PadDigits(n \div 10, width - 1) \o <<DigitChars[(n % 10) + 1]>>

NaN == [nan |-> TRUE, m |-> 0, k |-> 0]

\* Number(value) for a string of digits, signs, points, blanks and the
\* letter a: blanks around the literal are dropped; the literal is an
\* optional sign, then digits with at most one point and at least one
\* digit; the empty literal is 0 and anything else is NaN.  (Exponents,
\* Infinity and the 0x, 0o, 0b prefixes use letters outside this alphabet.)
Number(string) ==
  LET value == Trim(string)
      signed == value # <<>> /\ value[1] \in {"-", "+"}
      unsigned == IF signed THEN Tail(value) ELSE value
      points == {i \in DOMAIN unsigned : unsigned[i] = "."}
      point == IF points = {} THEN Len(unsigned) + 1
               ELSE CHOOSE i \in points : \A j \in points : i <= j
      whole == SubSeq(unsigned, 1, point - 1)
      fraction == SubSeq(unsigned, point + 1, Len(unsigned))
      digits == whole \o fraction
      m == DigitsValue(digits)
  IN  IF value = <<>> THEN [nan |-> FALSE, m |-> 0, k |-> 0]
      ELSE IF digits = <<>> \/ \E i \in DOMAIN digits : ~IsDigit(digits[i])
      THEN NaN
      ELSE [nan |-> FALSE,
            m |-> IF signed /\ value[1] = "-" THEN -m ELSE m,
            k |-> Len(fraction)]

\* Math.round(a / b) for b > 0: floor(a / b + 1/2)
MathRound(a, b) == (2 * a + b) \div (2 * b)

\* String(value) of an integer
String(value) ==
  IF value < 0 THEN <<"-">> \o Digits(-value) ELSE Digits(value)

\* (value / divisor).toFixed(precision) of an integer value
toFixed(value, divisor, precision) ==
  LET n == Abs(value)
  IN  (IF value < 0 THEN <<"-">> ELSE <<>>)
        \o Digits(n \div divisor) \o <<".">> \o PadDigits(n % divisor, precision)

toIntegerAmount(value, precision) ==
  LET num == Number(value)
  IN  IF value = <<>> THEN 0
      ELSE IF num.nan THEN 0
      ELSE IF num.k <= precision THEN num.m * Pow10(precision - num.k)
      ELSE MathRound(num.m, Pow10(num.k - precision))

fromIntegerAmount(value, precision) ==
  IF precision = 0 THEN String(value)
  ELSE toFixed(value, Pow10(precision), precision)

\* String(true), String(false)
BooleanString(value) ==
  IF value THEN <<"t", "r", "u", "e">> ELSE <<"f", "a", "l", "s", "e">>

\* Variant: only the keys the raw record has are converted
deserializePresent(raw, schema, precision) ==
  [name \in fieldNames(schema) \cap DOMAIN raw |->
     LET field == FieldDef(schema, name)
         rawValue == raw[name]
     IN  CASE field.type = "string" -> rawValue
           [] field.type = "boolean" -> rawValue = BooleanString(TRUE)
           [] OTHER -> toIntegerAmount(rawValue, precision)]

\* A number field keeps the number read: an integer, or the decimal
\* fraction m / 10^k
deserialize(raw, schema, precision) ==
  [name \in fieldNames(schema) |->
     LET field == FieldDef(schema, name)
         missing == name \notin DOMAIN raw
         rawValue == raw[name]
         n == Number(rawValue)
     IN  CASE field.type = "string" -> IF missing THEN <<>> ELSE rawValue
           [] field.type = "number" ->
                IF missing \/ rawValue = <<>> THEN 0
                ELSE IF n.nan THEN 0
                ELSE IF n.k = 0 THEN n.m ELSE [m |-> n.m, k |-> n.k]
           [] field.type = "boolean" ->
                IF missing THEN FALSE ELSE rawValue = BooleanString(TRUE)
           [] field.type = "money" ->
                IF missing THEN 0 ELSE toIntegerAmount(rawValue, precision)]

\* Every field of the schema is present in the record
serialize(record, schema, precision) ==
  [name \in fieldNames(schema) |->
     LET field == FieldDef(schema, name)
         value == record[name]
     IN  CASE field.type = "string" -> value
           [] field.type = "boolean" -> BooleanString(value)
           [] field.type = "money" -> fromIntegerAmount(value, precision)]

\* Precisions of CURRENCY_PRECISION
Precisions == {0, 2, 8}

MoneyInputs == {-12345678, -105, -5, 0, 5, 50, 1050, 150075, 12345678}

StringInputs == {<<>>, <<"t", "r", "u", "e">>, <<"1", ".", "5", "0">>}

\* Records as the create operations build them, with their texts as
\* strings
AccountRecords ==
  {[id |-> <<"1">>, name |-> name, type |-> <<"c", "a", "s", "h">>,
    currency |-> <<"U", "S", "D">>, institution |-> <<>>, balance |-> balance,
    hidden |-> hidden, reconciled |-> <<>>, createdAt |-> <<"2", "0", "2", "5">>] :
     name \in StringInputs, balance \in MoneyInputs, hidden \in BOOLEAN}

TransactionRecords ==
  {[id |-> <<"1">>, type |-> <<"e", "x", "p", "e", "n", "s", "e">>,
    accountId |-> <<"1">>, date |-> <<"2", "0", "2", "5">>, categoryId |-> <<>>,
    description |-> description, payee |-> <<>>, transferPairId |-> <<>>,
    amount |-> amount, notes |-> <<>>, source |-> <<"m", "a", "n", "u", "a", "l">>,
    createdAt |-> <<"2", "0", "2", "5">>] :
     description \in StringInputs, amount \in MoneyInputs}

CategoryRecords ==
  {[id |-> <<"1">>, type |-> <<"e", "x", "p", "e", "n", "s", "e">>, name |-> name,
    group |-> <<"L">>, assigned |-> assigned, hidden |-> hidden] :
     name \in StringInputs, assigned \in MoneyInputs, hidden \in BOOLEAN}

NoRecord == [name \in {} |-> <<>>]

IdleCodec ==
  [pc |-> "idle", schema |-> <<>>, precision |-> 0, record |-> NoRecord,
   raw |-> NoRecord, decoded |-> NoRecord]

CodecInputs ==
  {[pc |-> "record", schema |-> input[1], precision |-> precision,
    record |-> input[2], raw |-> NoRecord, decoded |-> NoRecord] :
     input \in ({ACCOUNT_SCHEMA} \X AccountRecords)
                 \cup ({TRANSACTION_SCHEMA} \X TransactionRecords)
                 \cup ({CATEGORY_SCHEMA} \X CategoryRecords),
     precision \in Precisions}

Serialize ==
  /\ codec.pc = "record"
  /\ codec' = [codec EXCEPT !.pc = "raw",
                 !.raw = serialize(codec.record, codec.schema, codec.precision)]
  /\ UNCHANGED <<store, files, call, heap, manager>>

\* Raw rows as a hand-edited file gives them: the same string under every
\* key, some keys of the schema missing, a key outside the schema present
NumericValues ==
  {<<"0">>, <<"1", "0", ".", "5", "0">>, <<"-", "7">>, <<" ", "5", " ">>,
   <<"+", ".", "5">>}

NonNumericValues ==
  {<<"a">>, <<"1", "a">>, <<"-">>, <<".">>, <<"1", ".", "2", ".", "3">>,
   <<"1", " ", "2">>, <<"t", "r", "u", "e">>, <<"f", "a", "l", "s", "e">>}

RawValues == {<<>>, <<" ">>} \cup NumericValues \cup NonNumericValues

ExtraKeys == {"extraField"}

RawRows(schema) ==
  LET names == fieldNames(schema)
      keySets == {names, {}} \cup {names \ {name} : name \in names}
                   \cup {{name} : name \in names}
  IN  {[key \in keys \cup extra |-> value] :
         keys \in keySets, extra \in SUBSET ExtraKeys, value \in RawValues}

RawInputs ==
  {[pc |-> "raw", schema |-> schema, precision |-> precision,
    record |-> NoRecord, raw |-> raw, decoded |-> NoRecord] :
     schema \in {CATEGORY_SCHEMA}, precision \in Precisions,
     raw \in RawRows(CATEGORY_SCHEMA)} \cup
  {[pc |-> "raw", schema |-> schema, precision |-> precision,
    record |-> NoRecord, raw |-> raw, decoded |-> NoRecord] :
     schema \in {ACCOUNT_SCHEMA}, precision \in Precisions,
     raw \in RawRows(ACCOUNT_SCHEMA)} \cup
  {[pc |-> "raw", schema |-> schema, precision |-> precision,
    record |-> NoRecord, raw |-> raw, decoded |-> NoRecord] :
     schema \in {TRANSACTION_SCHEMA}, precision \in Precisions,
     raw \in RawRows(TRANSACTION_SCHEMA)}

Deserialize ==
  /\ codec.pc = "raw"
  /\ codec' = [codec EXCEPT !.pc = "decoded",
                 !.decoded = deserialize(codec.raw, codec.schema, codec.precision)]
  /\ UNCHANGED <<store, files, call, heap, manager>>

----------------------------------------------------------------------------
(* csv.ts: the text of a CSV file, a sequence of characters, and its rows. *)

\* The characters of the field names, as the header row spells them
NameChars ==
  [id |-> <<"i", "d">>,
   name |-> <<"n", "a", "m", "e">>,
   type |-> <<"t", "y", "p", "e">>,
   currency |-> <<"c", "u", "r", "r", "e", "n", "c", "y">>,
   institution |-> <<"i", "n", "s", "t", "i", "t", "u", "t", "i", "o", "n">>,
   balance |-> <<"b", "a", "l", "a", "n", "c", "e">>,
   hidden |-> <<"h", "i", "d", "d", "e", "n">>,
   reconciled |-> <<"r", "e", "c", "o", "n", "c", "i", "l", "e", "d">>,
   createdAt |-> <<"c", "r", "e", "a", "t", "e", "d", "A", "t">>,
   accountId |-> <<"a", "c", "c", "o", "u", "n", "t", "I", "d">>,
   date |-> <<"d", "a", "t", "e">>,
   categoryId |-> <<"c", "a", "t", "e", "g", "o", "r", "y", "I", "d">>,
   description |-> <<"d", "e", "s", "c", "r", "i", "p", "t", "i", "o", "n">>,
   payee |-> <<"p", "a", "y", "e", "e">>,
   transferPairId |-> <<"t", "r", "a", "n", "s", "f", "e", "r", "P", "a", "i", "r", "I", "d">>,
   amount |-> <<"a", "m", "o", "u", "n", "t">>,
   notes |-> <<"n", "o", "t", "e", "s">>,
   source |-> <<"s", "o", "u", "r", "c", "e">>,
   group |-> <<"g", "r", "o", "u", "p">>,
   assigned |-> <<"a", "s", "s", "i", "g", "n", "e", "d">>]

BOM == "BOM"

\* value.replace(/"/g, '""')
RECURSIVE DoubleQuotes(_)
DoubleQuotes(value) ==
  IF value = <<>> THEN <<>>
  ELSE (IF Head(value) = "\"" THEN <<"\"", "\"">> ELSE <<Head(value)>>)
         \o DoubleQuotes(Tail(value))

escapeField(value) ==
  IF \E i \in DOMAIN value : value[i] \in {",", "\"", "\n", "\r"}
  THEN <<"\"">> \o DoubleQuotes(value) \o <<"\"">>
  ELSE value

\* fields.join(',')
RECURSIVE JoinFields(_)
JoinFields(fields) ==
  IF fields = <<>> THEN <<>>
  ELSE IF Len(fields) = 1 THEN fields[1]
  ELSE fields[1] \o <<",">> \o JoinFields(Tail(fields))

\* lines.join('\n') + '\n'
RECURSIVE JoinLines(_)
JoinLines(lines) ==
  IF lines = <<>> THEN <<"\n">>
  ELSE IF Len(lines) = 1 THEN lines[1] \o <<"\n">>
  ELSE lines[1] \o <<"\n">> \o JoinLines(Tail(lines))

\* headers are field names; records give a string under each of them
writeCSV(headers, records) ==
  LET headerLine ==
        JoinFields([i \in DOMAIN headers |-> escapeField(NameChars[headers[i]])])
      row(record) ==
        JoinFields([i \in DOMAIN headers |-> escapeField(record[headers[i]])])
  IN  JoinLines(<<headerLine>> \o [i \in DOMAIN records |-> row(records[i])])

\* parseQuotedField from the character after the opening quote
RECURSIVE QuotedFrom(_, _, _)
QuotedFrom(text, i, value) ==
  IF i > Len(text) THEN [value |-> value, nextIndex |-> i]
  ELSE IF text[i] = "\""
  THEN IF i + 1 <= Len(text) /\ text[i + 1] = "\""
       THEN QuotedFrom(text, i + 2, Append(value, "\""))
       ELSE [value |-> value, nextIndex |-> i + 1]
  ELSE QuotedFrom(text, i + 1, Append(value, text[i]))

parseQuotedField(text, start) == QuotedFrom(text, start + 1, <<>>)

\* The unquoted field at i: up to the next comma or line end
UnquotedField(text, i) ==
  LET ends == {j \in i..Len(text) : text[j] \in {",", "\n", "\r"}}
      end == IF ends = {} THEN Len(text) + 1
             ELSE CHOOSE j \in ends : \A k \in ends : j <= k
  IN  [value |-> SubSeq(text, i, end - 1), nextIndex |-> end]

FieldAt(text, i) ==
  IF text[i] = "\"" THEN parseQuotedField(text, i) ELSE UnquotedField(text, i)

\* if (text[i] === c) i++
SkipChar(text, i, c) == IF i <= Len(text) /\ text[i] = c THEN i + 1 ELSE i

\* After a comma: a comma that ends the line or the text stands before an
\* empty field
AfterComma(text, fields, i) ==
  IF i > Len(text) \/ text[i] \in {"\n", "\r"} THEN Append(fields, <<>>)
  ELSE fields

\* The loop of parseRow, at character i with the fields read so far
RECURSIVE RowFrom(_, _, _)
RECURSIVE AfterField(_, _, _)
RowFrom(text, i, fields) ==
  IF i > Len(text) THEN [row |-> fields, nextIndex |-> i]
  ELSE AfterField(text, fields, FieldAt(text, i))

\* The rest of one turn of the loop, the field at hand
AfterField(text, fields, field) ==
  IF field.nextIndex <= Len(text) /\ text[field.nextIndex] = ","
  THEN RowFrom(text, field.nextIndex + 1,
               AfterComma(text, Append(fields, field.value), field.nextIndex + 1))
  ELSE [row |-> Append(fields, field.value),
        nextIndex |-> SkipChar(text, SkipChar(text, field.nextIndex, "\r"), "\n")]

parseRow(text, start) == RowFrom(text, start, <<>>)

\* The loop of parseRows, at character i with the rows read so far
RECURSIVE RowsFrom(_, _, _)
RECURSIVE AfterRow(_, _, _)
RowsFrom(text, i, rows) ==
  IF i > Len(text) THEN rows ELSE AfterRow(text, rows, parseRow(text, i))

\* A last row that is one empty field is the end of the text, not a row
AfterRow(text, rows, parsed) ==
  IF parsed.nextIndex > Len(text) /\ parsed.row = <<<<>>>> THEN rows
  ELSE RowsFrom(text, parsed.nextIndex, Append(rows, parsed.row))

parseRows(text) == RowsFrom(text, 1, <<>>)

\* input.charCodeAt(0) === 0xfeff ? input.slice(1) : input
StripBOM(input) ==
  IF input # <<>> /\ input[1] = BOM THEN Tail(input) ELSE input

\* The last column whose header spells the field name: a later column of the
\* same name replaces an earlier one
Column(headers, name) ==
  Max({i \in DOMAIN headers : headers[i] = NameChars[name]})

\* row[i] ?? ''
Cell(row, i) == IF i \in DOMAIN row THEN row[i] ELSE <<>>

\* The record of a row, keyed by the field names the header row spells; a
\* header that spells no field name gives a key no schema reads.
RecordOfRow(headers, row) ==
  [name \in {n \in DOMAIN NameChars :
               \E i \in DOMAIN headers : headers[i] = NameChars[n]} |->
     Cell(row, Column(headers, name))]

\* The records of the rows after the header row
RecordsOfRows(rows) ==
  IF rows = <<>> THEN <<>>
  ELSE [r \in 1..(Len(rows) - 1) |-> RecordOfRow(rows[1], rows[r + 1])]

parseCSV(input) == RecordsOfRows(parseRows(StripBOM(input)))

----------------------------------------------------------------------------
(* store.ts and storage.ts: the three data files read and written *)

CURRENCY_PRECISION ==
  <<"U", "S", "D">> :> 2 @@
  <<"E", "U", "R">> :> 2 @@
  <<"G", "B", "P">> :> 2 @@
  <<"C", "A", "D">> :> 2 @@
  <<"A", "U", "D">> :> 2 @@
  <<"C", "H", "F">> :> 2 @@
  <<"C", "N", "Y">> :> 2 @@
  <<"J", "P", "Y">> :> 0 @@
  <<"K", "R", "W">> :> 0 @@
  <<"B", "T", "C">> :> 8 @@
  <<"E", "T", "H">> :> 8 @@
  <<"S", "O", "L">> :> 8

\* CURRENCY_PRECISION[currency] ?? 2
getPrecision(currency) ==
  IF currency \in DOMAIN CURRENCY_PRECISION THEN CURRENCY_PRECISION[currency] ELSE 2

USD == <<"U", "S", "D">>

\* record[key] || 'USD': the value, unless it is missing or empty
OrUSD(record, key) ==
  IF key \in DOMAIN record /\ record[key] # <<>> THEN record[key] ELSE USD

\* The column order of the file: fieldNames(schema) as a list
Headers(schema) == [i \in DOMAIN schema |-> schema[i].name]

\* The store manager at rest: started, no call to mutate under way, every
\* data file readable
IdleManager == [pc |-> "ready", denied |-> {}, calls |-> <<>>]

\* The outcome of an awaited call: a value, or a rejection
Returned(value) == [threw |-> FALSE, value |-> value]

Threw(error) == [threw |-> TRUE, error |-> error]

\* The data files of the store, and the field list of each
DataFiles == {"accounts", "transactions", "categories"}

\* A data directory: the three files, and those the process may not read
DataDir(dataFiles, denied) == [files |-> dataFiles, denied |-> denied]

\* fs access(filePath): whether the file exists
access(dir, filePath) ==
  IF dir.files[filePath].exists THEN Returned(TRUE) ELSE Threw("ENOENT")

\* fs readFile(filePath, 'utf-8')
readFile(dir, filePath) ==
  IF ~dir.files[filePath].exists THEN Threw("ENOENT")
  ELSE IF filePath \in dir.denied THEN Threw("EACCES")
  ELSE Returned(dir.files[filePath].content)

\* accountCurrencyMap.get(id) || 'USD', the map filled in list order
accountCurrency(accounts, id) ==
  LET found == {i \in DOMAIN accounts : accounts[i].id = id}
  IN  IF found = {} THEN USD ELSE OrUSD(accounts[Max(found)], "currency")

\* record['accountId'] || ''
AccountIdOf(record) ==
  IF "accountId" \in DOMAIN record THEN record.accountId ELSE <<>>

\* The options loadStore and persistStore pass for each file: the precision
\* of a record is that of its own currency, that of the currency of the
\* account it names, or 2
OwnCurrency == [getPrecisionForRecord |-> "currency"]

AccountCurrency(accounts) ==
  [getPrecisionForRecord |-> "accountId", accounts |-> accounts]

FixedPrecision == [precision |-> 2]

\* getPrecisionFn ? getPrecisionFn(record) : defaultPrecision
PrecisionOf(options, record) ==
  IF "getPrecisionForRecord" \notin DOMAIN options THEN options.precision
  ELSE IF options.getPrecisionForRecord = "currency"
  THEN getPrecision(OrUSD(record, "currency"))
  ELSE getPrecision(accountCurrency(options.accounts, AccountIdOf(record)))

\* rawRecords.map((raw) => deserialize(raw, schema, precision))
Deserialized(rawRecords, schema, options) ==
  [i \in DOMAIN rawRecords |->
     deserialize(rawRecords[i], schema, PrecisionOf(options, rawRecords[i]))]

\* readCSVFile once readFile has settled
RecordsOfContent(content, schema, options) ==
  IF content.threw THEN content
  ELSE Returned(Deserialized(parseCSV(content.value), schema, options))

readCSVFile(dir, filePath, schema, options) ==
  RecordsOfContent(readFile(dir, filePath), schema, options)

\* catch { return []; }
OrNoRecords(read) == IF read.threw THEN <<>> ELSE read.value

\* try { await access; return await readCSVFile } catch { return [] }
safeReadCSV(dir, filePath, schema, options) ==
  IF access(dir, filePath).threw THEN <<>>
  ELSE OrNoRecords(readCSVFile(dir, filePath, schema, options))

\* loadStore once the accounts are read
LoadedWith(dir, accounts) ==
  [accounts |-> accounts,
   transactions |->
     safeReadCSV(dir, "transactions", TRANSACTION_SCHEMA, AccountCurrency(accounts)),
   categories |-> safeReadCSV(dir, "categories", CATEGORY_SCHEMA, FixedPrecision)]

\* The promise of loadStore, settled: no statement of it rejects
loadStore(dir) ==
  Returned(LoadedWith(dir, safeReadCSV(dir, "accounts", ACCOUNT_SCHEMA, OwnCurrency)))

\* The text writeCSVFile hands to atomicWriteFile
writeCSVFile(schema, records, options) ==
  writeCSV(Headers(schema),
           [i \in DOMAIN records |->
              serialize(records[i], schema, PrecisionOf(options, records[i]))])

\* The three texts persistStore writes, in the order it writes them
persistStore(s) ==
  [accounts |-> writeCSVFile(ACCOUNT_SCHEMA, s.accounts, OwnCurrency),
   transactions |->
     writeCSVFile(TRANSACTION_SCHEMA, s.transactions, AccountCurrency(s.accounts)),
   categories |-> writeCSVFile(CATEGORY_SCHEMA, s.categories, FixedPrecision)]

----------------------------------------------------------------------------
(* storage.ts: atomicWriteFile.  A file is its content, a sequence of       *)
(* characters; a path of the data directory holds a file or none.  The call *)
(* runs open, writeFile, sync, close and rename one after the other, and    *)
(* the process may stop between any two of them.                            *)

Absent == [exists |-> FALSE, content |-> <<>>]

File(content) == [exists |-> TRUE, content |-> content]

TargetPath == <<"accounts.csv", 0>>

\* A call that opens the target itself instead of a temp file
tmpPathInPlace(filePath, n) == filePath

\* join(dir, `.tmp_${Date.now()}_${random}`): a name no earlier call used
tmpPath(filePath, n) == <<".tmp_", n>>

Paths == {TargetPath} \cup {tmpPath(TargetPath, n) : n \in 1..MaxCalls}

\* Contents the target holds before the first call, and contents written
OldFiles == {Absent, File(<<>>), File(<<"o", "l", "d">>)}

NewContents == {<<>>, <<"o">>, <<"n", "e", "w">>}

\* No call in progress; n counts the calls begun
IdleCall ==
  [pc |-> "idle", n |-> 0, filePath |-> TargetPath, tmpPath |-> TargetPath,
   content |-> <<>>, before |-> Absent, crashed |-> FALSE]

Running(pc) == call.pc = pc /\ ~call.crashed

\* atomicWriteFile(filePath, content) is called on the target; before keeps
\* the file the target holds at the call
AtomicWriteFile ==
  \E filePath \in {TargetPath}, content \in NewContents :
    /\ Running("idle")
    /\ call.n < MaxCalls
    /\ call' = [call EXCEPT !.pc = "called", !.n = call.n + 1,
                            !.filePath = filePath,
                            !.tmpPath = tmpPath(filePath, call.n + 1),
                            !.content = content, !.before = files[filePath]]
    /\ UNCHANGED <<store, files, codec, heap, manager>>

\* open(tmpPath, 'w') creates the file, or truncates the one there
Open ==
  /\ Running("called")
  /\ files' = [files EXCEPT ![call.tmpPath] = File(<<>>)]
  /\ call' = [call EXCEPT !.pc = "opened"]
  /\ UNCHANGED <<store, codec, heap, manager>>

\* fh.writeFile(content): the content reaches the file piece by piece
WriteChunk ==
  /\ Running("opened")
  /\ Len(files[call.tmpPath].content) < Len(call.content)
  /\ files' =
       [files EXCEPT ![call.tmpPath] =
          File(Append(@.content, call.content[Len(@.content) + 1]))]
  /\ UNCHANGED <<store, call, codec, heap, manager>>

WriteDone ==
  /\ Running("opened")
  /\ Len(files[call.tmpPath].content) = Len(call.content)
  /\ call' = [call EXCEPT !.pc = "written"]
  /\ UNCHANGED <<store, files, codec, heap, manager>>

\* fh.writeFile or fh.sync throws (disk full, I/O error)
WriteFails ==
  /\ Running("opened") \/ Running("written")
  /\ call' = [call EXCEPT !.pc = "failed"]
  /\ UNCHANGED <<store, files, codec, heap, manager>>

\* fh.sync()
Sync ==
  /\ Running("written")
  /\ call' = [call EXCEPT !.pc = "synced"]
  /\ UNCHANGED <<store, files, codec, heap, manager>>

\* finally fh.close(): after a failure the error leaves the call and the
\* rename is not reached
Close ==
  /\ Running("synced") \/ Running("failed")
  /\ call' = [call EXCEPT !.pc = IF call.pc = "synced" THEN "closed" ELSE "idle"]
  /\ UNCHANGED <<store, files, codec, heap, manager>>

\* rename(tmpPath, filePath) replaces the target in one step
Rename ==
  /\ Running("closed")
  /\ files' =
       IF call.tmpPath = call.filePath
       THEN files
       ELSE [files EXCEPT ![call.filePath] = files[call.tmpPath],
                          ![call.tmpPath] = Absent]
  /\ call' = [call EXCEPT !.pc = "renamed"]
  /\ UNCHANGED <<store, codec, heap, manager>>

Return ==
  /\ Running("renamed")
  /\ call' = [call EXCEPT !.pc = "idle"]
  /\ UNCHANGED <<store, files, codec, heap, manager>>

\* The process stops where it is; the files stay as they are
Crash ==
  /\ ~call.crashed
  /\ call.pc # "idle"
  /\ call' = [call EXCEPT !.crashed = TRUE]
  /\ UNCHANGED <<store, files, codec, heap, manager>>

\* A new process starts on the directory the stopped one left
Restart ==
  /\ call.crashed
  /\ call' = [call EXCEPT !.pc = "idle", !.crashed = FALSE]
  /\ UNCHANGED <<store, files, codec, heap, manager>>

----------------------------------------------------------------------------
(* The caller (mutate in storeManager.ts) applies an operation to the ledger *)
(* it holds and replaces the ledger by the operation's value when the        *)
(* operation succeeds; a failed operation carries no ledger and the caller   *)
(* keeps the one it has.                                                     *)

EmptyStore == [accounts |-> <<>>, transactions |-> <<>>, categories |-> <<>>]

\* Variant: the result of a successful operation is not kept
StoreKept(s, result) == s

\* The ledger the caller holds after an operation returned result
StoreAfter(s, result) == IF result.ok THEN result.value ELSE s

mutate(result) ==
  /\ store' = StoreAfter(store, result)
  /\ UNCHANGED <<files, call, codec, heap, manager>>

----------------------------------------------------------------------------
(* Arrays in memory.  A ledger object holds three references to arrays; an  *)
(* operation reads the arrays of the ledger it is given and returns a       *)
(* ledger object whose references are the given ones or new ones.           *)

Collections == {"accounts", "transactions", "categories"}

\* How the operation obtains each array of its result:
\*   kept      the reference of the given ledger ({ ...store })
\*   built     a new array from filter, map or an array literal
\*   assigned  const xs = [...store.xs]; xs[i] = value
Kept == [c \in Collections |-> "kept"]

Handling ==
  [createAccount |-> [Kept EXCEPT !.accounts = "built"],
   updateAccount |-> [Kept EXCEPT !.accounts = "assigned"],
   hideAccount |-> [Kept EXCEPT !.accounts = "assigned"],
   deleteAccount |-> [Kept EXCEPT !.accounts = "built"],
   reconcileAccount |-> [Kept EXCEPT !.accounts = "assigned"],
   createCategory |-> [Kept EXCEPT !.categories = "built"],
   updateCategory |-> [Kept EXCEPT !.categories = "assigned"],
   hideCategory |-> [Kept EXCEPT !.categories = "assigned"],
   unhideCategory |-> [Kept EXCEPT !.categories = "assigned"],
   deleteCategory |->
     [Kept EXCEPT !.categories = "built", !.transactions = "built"],
   createTransaction |->
     [Kept EXCEPT !.accounts = "built", !.transactions = "built"],
   updateTransaction |->
     [Kept EXCEPT !.accounts = "built", !.transactions = "assigned"],
   deleteTransaction |->
     [Kept EXCEPT !.accounts = "built", !.transactions = "built"],
   bulkImportTransactions |->
     [Kept EXCEPT !.accounts = "built", !.transactions = "built"],
   createTransfer |->
     [Kept EXCEPT !.accounts = "built", !.transactions = "built"],
   syncTransferAmount |->
     [Kept EXCEPT !.accounts = "built", !.transactions = "assigned"],
   unlinkTransfer |->
     [Kept EXCEPT !.accounts = "built", !.transactions = "built"]]

\* The operations on the ledger s with their results
HeapCalls(s) ==
  {[op |-> "createAccount", result |-> createAccount(s, data)] :
     data \in CreateAccountInputs} \cup
  {[op |-> "updateAccount", result |-> updateAccount(s, id, changes)] :
     id \in AccountIdInputs, changes \in UpdateAccountInputs} \cup
  {[op |-> "hideAccount", result |-> hideAccount(s, id)] :
     id \in AccountIdInputs} \cup
  {[op |-> "deleteAccount", result |-> deleteAccount(s, id)] :
     id \in AccountIdInputs} \cup
  {[op |-> "reconcileAccount",
    result |-> reconcileAccount(s, id, reportedBalance)] :
     id \in AccountIdInputs, reportedBalance \in ReportedBalanceInputs} \cup
  {[op |-> "createCategory", result |-> createCategory(s, data)] :
     data \in CreateCategoryInputs} \cup
  {[op |-> "updateCategory", result |-> updateCategory(s, id, changes)] :
     id \in CategoryIdInputs, changes \in UpdateCategoryInputs} \cup
  {[op |-> "hideCategory", result |-> hideCategory(s, id)] :
     id \in CategoryIdInputs} \cup
  {[op |-> "unhideCategory", result |-> unhideCategory(s, id)] :
     id \in CategoryIdInputs} \cup
  {[op |-> "deleteCategory", result |-> deleteCategory(s, id)] :
     id \in CategoryIdInputs} \cup
  {[op |-> "createTransaction", result |-> createTransaction(s, data)] :
     data \in CreateTransactionInputs} \cup
  {[op |-> "updateTransaction", result |-> updateTransaction(s, id, changes)] :
     id \in TxIdInputs, changes \in UpdateTransactionInputs} \cup
  {[op |-> "deleteTransaction", result |-> deleteTransaction(s, id)] :
     id \in TxIdInputs} \cup
  {[op |-> "bulkImportTransactions",
    result |-> bulkImportTransactions(s, data)] :
     data \in BulkImportInputs} \cup
  {[op |-> "createTransfer", result |-> createTransfer(s, data)] :
     data \in CreateTransferInputs} \cup
  {[op |-> "syncTransferAmount",
    result |-> syncTransferAmount(s, id, newAmount)] :
     id \in TxIdInputs, newAmount \in SyncAmountInputs} \cup
  {[op |-> "unlinkTransfer", result |-> unlinkTransfer(s, id, newType)] :
     id \in TxIdInputs, newType \in UnlinkTypes}

\* References: the arrays of the given ledger, and one new array per
\* collection for the operation
GivenRef == [accounts |-> 1, transactions |-> 2, categories |-> 3]

NewRef == [accounts |-> 4, transactions |-> 5, categories |-> 6]

\* The ledger value behind a ledger object
Deref(arrays, refs) == [c \in Collections |-> arrays[refs[c]]]

\* A snapshot s held by a caller; no operation applied yet
NewHeap(s) ==
  [arrays |-> [ref \in 1..6 |-> IF ref = 1 THEN s.accounts
                                ELSE IF ref = 2 THEN s.transactions
                                ELSE IF ref = 3 THEN s.categories ELSE <<>>],
   snapshot |-> s, op |-> "none", ok |-> FALSE, output |-> GivenRef]

IdleHeap == NewHeap(EmptyStore)

\* A copy that is the given array itself
spreadAlias(ref, new) == ref

\* [...xs]: the reference of a new array with the elements of xs
spread(ref, new) == new

\* An operation is applied to the ledger object the caller holds: it reads
\* the given arrays and writes the arrays of its result.  A failure, and a
\* bulk import that imports nothing (return ok(store)), write no array.
Apply ==
  \E called \in HeapCalls(Deref(heap.arrays, GivenRef)) :
    LET given == Deref(heap.arrays, GivenRef)
        result == called.result
        handling ==
          IF ~result.ok THEN Kept
          ELSE IF called.op = "bulkImportTransactions" /\ result.value = given
          THEN Kept
          ELSE Handling[called.op]
        output ==
          [c \in Collections |->
             CASE handling[c] = "kept" -> GivenRef[c]
               [] handling[c] = "built" -> NewRef[c]
               [] handling[c] = "assigned" -> spread(GivenRef[c], NewRef[c])]
        written == {c \in Collections : handling[c] # "kept"}
    IN  /\ heap' =
             [heap EXCEPT
                !.arrays =
                  [ref \in 1..6 |->
                     IF \E c \in written : output[c] = ref
                     THEN result.value[CHOOSE c \in written : output[c] = ref]
                     ELSE IF ref \in {GivenRef[c] : c \in Collections}
                     THEN heap.arrays[ref]
                     ELSE <<>>],
                !.op = called.op, !.ok = result.ok, !.output = output]
        /\ UNCHANGED <<store, files, call, codec, manager>>

\* Bounds on the growth of the collections
RoomFor(records, n, maxLen, maxId) ==
  /\ Len(records) + n <= maxLen
  /\ nextId(records) + n - 1 <= maxId

Init ==
  /\ store = EmptyStore
  /\ files = [path \in Paths |-> Absent]
  /\ call = IdleCall
  /\ codec = IdleCodec
  /\ heap = IdleHeap
  /\ manager = IdleManager

CreateAccount ==
  \E data \in CreateAccountInputs :
    /\ RoomFor(store.accounts, 1, MaxAccountId, MaxAccountId)
    /\ mutate(createAccount(store, data))

DeleteAccount ==
  \E id \in AccountIdInputs :
    mutate(deleteAccount(store, id))

CreateCategory ==
  \E data \in CreateCategoryInputs :
    /\ RoomFor(store.categories, 1, MaxCategoryId, MaxCategoryId)
    /\ mutate(createCategory(store, data))

DeleteCategory ==
  \E id \in CategoryIdInputs :
    mutate(deleteCategory(store, id))

CreateTransaction ==
  \E data \in CreateTransactionInputs :
    /\ RoomFor(store.transactions, 1, MaxTx, MaxTxId)
    /\ mutate(createTransaction(store, data))

UpdateTransaction ==
  \E id \in TxIdInputs, changes \in UpdateTransactionInputs :
    mutate(updateTransaction(store, id, changes))

DeleteTransaction ==
  \E id \in TxIdInputs :
    mutate(deleteTransaction(store, id))

BulkImportTransactions ==
  \E data \in BulkImportInputs :
    /\ RoomFor(store.transactions, Len(data.transactions), MaxTx, MaxTxId)
    /\ mutate(bulkImportTransactions(store, data))

CreateTransfer ==
  \E data \in CreateTransferInputs :
    /\ RoomFor(store.transactions, 2, MaxTx, MaxTxId)
    /\ mutate(createTransfer(store, data))

SyncTransferAmount ==
  \E id \in TxIdInputs, newAmount \in SyncAmounts :
    mutate(syncTransferAmount(store, id, newAmount))

UnlinkTransfer ==
  \E id \in TxIdInputs, newType \in UnlinkTypes :
    mutate(unlinkTransfer(store, id, newType))

ReconcileAccount ==
  \E id \in AccountIdInputs, reportedBalance \in ReportedBalances :
    mutate(reconcileAccount(store, id, reportedBalance))

Next ==
  \/ CreateAccount
  \/ DeleteAccount
  \/ CreateCategory
  \/ DeleteCategory
  \/ CreateTransaction
  \/ UpdateTransaction
  \/ DeleteTransaction
  \/ BulkImportTransactions
  \/ CreateTransfer
  \/ SyncTransferAmount
  \/ UnlinkTransfer
  \/ ReconcileAccount

Spec == Init /\ [][Next]_vars

----------------------------------------------------------------------------
(* Ledgers read from hand-edited files.  loadStore returns the records of   *)
(* the three files as they are: dangling and one-sided references are left  *)
(* in place.                                                                *)

LoadedAccount(id, reconciled) ==
  [id |-> id, name |-> Text("A"), type |-> "checking",
   currency |-> <<"U", "S", "D">>, institution |-> <<>>, balance |-> 0,
   hidden |-> FALSE, reconciled |-> reconciled, createdAt |-> Now]

LoadedAccounts == <<LoadedAccount(1, Today), LoadedAccount(2, NoDate)>>

LoadedTransaction(id, type, transferPairId) ==
  [id |-> id, type |-> type, accountId |-> IF id = 1 THEN 1 ELSE 2,
   date |-> Today, categoryId |-> NoId, description |-> Text("x"),
   payee |-> <<>>, transferPairId |-> transferPairId, amount |-> 1,
   notes |-> <<>>, source |-> "manual", createdAt |-> Now]

LoadedTransactions ==
  UNION {
    {txs \in [1..n -> {LoadedTransaction(id, type, pairId) :
                         id \in 1..n, type \in TRANSACTION_TYPES,
                         pairId \in 0..(MaxLoadedTx + 1)}] :
       \A i \in 1..n : txs[i].id = i /\ txs[i].transferPairId # i} :
    n \in 0..MaxLoadedTx}

LoadedStores ==
  {[accounts |-> LoadedAccounts, transactions |-> txs, categories |-> <<>>] :
     txs \in LoadedTransactions}

InitLoaded ==
  /\ store \in LoadedStores
  /\ files = [path \in Paths |-> Absent]
  /\ call = IdleCall
  /\ codec = IdleCodec
  /\ heap = IdleHeap
  /\ manager = IdleManager

NextLoaded ==
  \/ SyncTransferAmount
  \/ UnlinkTransfer

SpecLoaded == InitLoaded /\ [][NextLoaded]_vars

----------------------------------------------------------------------------
(* Writes of one file of the data directory, with process stops *)

InitWrite ==
  /\ store = EmptyStore
  /\ \E old \in OldFiles :
       files = [path \in Paths |-> IF path = TargetPath THEN old ELSE Absent]
  /\ call = IdleCall
  /\ codec = IdleCodec
  /\ heap = IdleHeap
  /\ manager = IdleManager

NextWrite ==
  \/ AtomicWriteFile
  \/ Open
  \/ WriteChunk
  \/ WriteDone
  \/ WriteFails
  \/ Sync
  \/ Close
  \/ Rename
  \/ Return
  \/ Crash
  \/ Restart

SpecWrite == InitWrite /\ [][NextWrite]_vars

----------------------------------------------------------------------------
(* A record serialized and deserialized with one schema and precision *)

InitCodec ==
  /\ store = EmptyStore
  /\ files = [path \in Paths |-> Absent]
  /\ call = IdleCall
  /\ codec \in CodecInputs
  /\ heap = IdleHeap
  /\ manager = IdleManager

NextCodec ==
  \/ Serialize
  \/ Deserialize

SpecCodec == InitCodec /\ [][NextCodec]_vars

----------------------------------------------------------------------------
(* Operations applied, one after the other, to one ledger object *)

\* Ledgers for the snapshot: the empty one, one with two accounts and a
\* category, one with a transfer and a categorised expense on top, and
\* that one with the receiving account reconciled.
SnapshotStores ==
  LET account == CHOOSE data \in CreateAccountInputs :
                   createAccount(EmptyStore, data).ok
      category == CHOOSE data \in CreateCategoryInputs :
                    createCategory(EmptyStore, data).ok
      one == createAccount(EmptyStore, account).value
      two == createAccount(one, account).value
      categorised == createCategory(two, category).value
      transfer == CHOOSE data \in CreateTransferInputs :
                    /\ data.fromAccountId = 1
                    /\ createTransfer(categorised, data).ok
      moved == createTransfer(categorised, transfer).value
      expense == CHOOSE data \in CreateTransactionInputs :
                   /\ data.accountId = 1
                   /\ data.categoryId # NoId
                   /\ createTransaction(moved, data).ok
      spent == createTransaction(moved, expense).value
      reconciled ==
        reconcileAccount(spent, 2, calculateWorkingBalance(2, spent.transactions)).value
  IN  {EmptyStore, categorised, spent, reconciled}

InitHeap ==
  /\ store = EmptyStore
  /\ files = [path \in Paths |-> Absent]
  /\ call = IdleCall
  /\ codec = IdleCodec
  /\ heap \in {NewHeap(s) : s \in SnapshotStores}
  /\ manager = IdleManager

NextHeap == Apply

SpecHeap == InitHeap /\ [][NextHeap]_vars

----------------------------------------------------------------------------
(* A raw row of a hand-edited file deserialized *)

InitRaw ==
  /\ store = EmptyStore
  /\ files = [path \in Paths |-> Absent]
  /\ call = IdleCall
  /\ codec \in RawInputs
  /\ heap = IdleHeap
  /\ manager = IdleManager

NextRaw == Deserialize

SpecRaw == InitRaw /\ [][NextRaw]_vars

----------------------------------------------------------------------------
(* The server starting on a data directory somebody else may have written: *)
(* initStore loads the three files.                                        *)

\* let store: DataStore | null = null
NoStore == [null |-> TRUE]

JPY == <<"J", "P", "Y">>

BTC == <<"B", "T", "C">>

\* The rows of the data files at start
StoredAccount ==
  [id |-> <<"1">>, name |-> <<"a">>, type |-> <<"c", "a", "s", "h">>,
   currency |-> JPY, institution |-> <<>>, balance |-> 1050, hidden |-> FALSE,
   reconciled |-> <<>>, createdAt |-> <<"2", "0", "2", "5">>]

StoredTransaction ==
  [id |-> <<"1">>, type |-> <<"e", "x", "p", "e", "n", "s", "e">>,
   accountId |-> <<"1">>, date |-> <<"2", "0", "2", "5">>, categoryId |-> <<"1">>,
   description |-> <<"a", ",", "b">>, payee |-> <<>>, transferPairId |-> <<>>,
   amount |-> -105, notes |-> <<>>, source |-> <<"m", "a", "n", "u", "a", "l">>,
   createdAt |-> <<"2", "0", "2", "5">>]

StoredCategory ==
  [id |-> <<"1">>, name |-> <<"f", "o", "o", "d">>, group |-> <<"L">>,
   assigned |-> 150075, hidden |-> FALSE]

StoredLedger ==
  [accounts |-> <<StoredAccount>>, transactions |-> <<StoredTransaction>>,
   categories |-> <<StoredCategory>>]

\* A data file at start: absent, empty, a header row alone, or a header row
\* and one record
StartFiles(headerOnly, withRecord) ==
  {Absent, File(<<>>), File(headerOnly), File(withRecord)}

DirsOf(headerOnly, withRecord) ==
  [accounts : StartFiles(headerOnly.accounts, withRecord.accounts),
   transactions : StartFiles(headerOnly.transactions, withRecord.transactions),
   categories : StartFiles(headerOnly.categories, withRecord.categories)]

StartDirs == DirsOf(persistStore(EmptyStore), persistStore(StoredLedger))

\* initStore: store = await loadStore(dataDir); a rejection leaves no store
InitStore ==
  /\ manager.pc = "start"
  /\ LET loaded == loadStore(DataDir(files, manager.denied))
     IN  IF loaded.threw
         THEN /\ manager' = [manager EXCEPT !.pc = "failed"]
              /\ UNCHANGED store
         ELSE /\ manager' = [manager EXCEPT !.pc = "ready"]
              /\ store' = loaded.value
  /\ UNCHANGED <<files, call, codec, heap>>

InitLoad ==
  /\ store = NoStore
  /\ files \in StartDirs
  /\ call = IdleCall
  /\ codec = IdleCodec
  /\ heap = IdleHeap
  /\ manager \in {[pc |-> "start", denied |-> denied, calls |-> <<>>] :
                    denied \in SUBSET DataFiles}

NextLoad == InitStore

SpecLoad == InitLoad /\ [][NextLoad]_vars

----------------------------------------------------------------------------
(* storeManager.ts: mutate, call by call.  The route handlers are async     *)
(* functions on one thread: a call runs to its first await in one step, and *)
(* each file persistStore writes is one later step, the rename at the end   *)
(* of its atomicWriteFile.  Nothing holds a second call back while the      *)
(* first awaits.  In this part a data file is represented by the records    *)
(* that writeCSVFile encoded into it.                                       *)

\* Calls to mutate under way at once, and records kept per collection
MaxMutates == 2

MaxKept == 1

\* The operations the route handlers pass to mutate
Requests ==
  {[op |-> "createAccount",
    data |-> [name |-> Text("A"), type |-> "checking",
              currency |-> <<"U", "S", "D">>, institution |-> <<>>, balance |-> 0]],
   [op |-> "createCategory",
    data |-> [type |-> "expense", name |-> Text("C"), group |-> Text("G"),
              assigned |-> 0]],
   [op |-> "createTransaction",
    data |-> [type |-> "expense", accountId |-> 1, date |-> Today,
              categoryId |-> 1, description |-> Text("x"), payee |-> <<>>,
              amount |-> -1, notes |-> <<>>, source |-> Undefined]],
   [op |-> "deleteTransaction", id |-> 1],
   [op |-> "deleteCategory", id |-> 1],
   [op |-> "deleteAccount", id |-> 1]}

\* fn(current)
Run(s, request) ==
  CASE request.op = "createAccount" -> createAccount(s, request.data)
    [] request.op = "createCategory" -> createCategory(s, request.data)
    [] request.op = "createTransaction" -> createTransaction(s, request.data)
    [] request.op = "deleteTransaction" -> deleteTransaction(s, request.id)
    [] request.op = "deleteCategory" -> deleteCategory(s, request.id)
    [] request.op = "deleteAccount" -> deleteAccount(s, request.id)

\* The result stays within the bounds of the model
Bounded(s) ==
  /\ Len(s.accounts) <= MaxKept /\ nextId(s.accounts) <= MaxAccountId
  /\ Len(s.categories) <= MaxKept /\ nextId(s.categories) <= MaxCategoryId
  /\ Len(s.transactions) <= MaxKept /\ nextId(s.transactions) <= MaxTxId

\* Variant: persistStore is handed the store read before fn ran
persistCurrent(current, result) == current

\* store = result.value; await persistStore(store, dataDir)
persistArgument(current, result) == result.value

\* Variant: categories.csv is written first
FileOrderCategoriesFirst == <<"categories", "accounts", "transactions">>

\* persistStore writes accounts.csv, transactions.csv, categories.csv
FileOrder == <<"accounts", "transactions", "categories">>

\* After the file at position k: the next file, or the return of mutate
AfterFile(k) == IF k < Len(FileOrder) THEN FileOrder[k + 1] ELSE "returned"

FilePosition(pc) == CHOOSE k \in DOMAIN FileOrder : FileOrder[k] = pc

\* What loadStore reads back from the data files
DiskStore(dataFiles) ==
  [path \in DataFiles |->
     IF dataFiles[path].exists THEN dataFiles[path].content ELSE <<>>]

\* mutate(fn) up to its first await: fn runs on the current store; on success
\* the store is swapped and persistStore begins, on failure mutate returns
MutateCall ==
  \E request \in Requests :
    LET result == Run(store, request)
    IN  /\ manager.pc = "ready"
        /\ Len(manager.calls) < MaxMutates
        /\ result.ok => Bounded(result.value)
        /\ store' = StoreAfter(store, result)
        /\ manager' =
             [manager EXCEPT !.calls =
                Append(@, [request |-> request,
                           ok |-> result.ok,
                           current |-> store,
                           persisting |-> IF result.ok
                                          THEN persistArgument(store, result)
                                          ELSE store,
                           pc |-> IF result.ok THEN FileOrder[1] ELSE "returned"])]
        /\ UNCHANGED <<files, call, codec, heap>>

\* One writeCSVFile of a persistStore completes: its rename replaces the file
PersistFile ==
  \E c \in DOMAIN manager.calls :
    LET this == manager.calls[c]
    IN  /\ manager.pc = "ready"
        /\ this.pc \in DataFiles
        /\ files' = [files EXCEPT ![this.pc] = File(this.persisting[this.pc])]
        /\ manager' = [manager EXCEPT !.calls[c].pc = AfterFile(FilePosition(this.pc))]
        /\ UNCHANGED <<store, call, codec, heap>>

\* return result: the handler answers and the call is over
MutateReturn ==
  \E c \in DOMAIN manager.calls :
    /\ manager.pc = "ready"
    /\ manager.calls[c].pc = "returned"
    /\ manager' = [manager EXCEPT !.calls =
                     SubSeq(@, 1, c - 1) \o SubSeq(@, c + 1, Len(@))]
    /\ UNCHANGED <<store, files, call, codec, heap>>

\* The process dies with calls under way; the files stay as they are
ProcessCrash ==
  /\ manager.pc = "ready"
  /\ \E c \in DOMAIN manager.calls : manager.calls[c].pc \in DataFiles
  /\ manager' = [manager EXCEPT !.pc = "crashed"]
  /\ UNCHANGED <<store, files, call, codec, heap>>

\* The server is started again: initStore loads what the files hold
ProcessRestart ==
  /\ manager.pc = "crashed"
  /\ store' = DiskStore(files)
  /\ manager' = [manager EXCEPT !.pc = "ready", !.calls = <<>>]
  /\ UNCHANGED <<files, call, codec, heap>>

InitManager ==
  /\ store = EmptyStore
  /\ files = [path \in DataFiles |-> Absent]
  /\ call = IdleCall
  /\ codec = IdleCodec
  /\ heap = IdleHeap
  /\ manager = IdleManager

NextManager ==
  \/ MutateCall
  \/ PersistFile
  \/ MutateReturn
  \/ ProcessCrash
  \/ ProcessRestart

SpecManager == InitManager /\ [][NextManager]_vars

\* The same server when the requests arrive one at a time: a call to mutate
\* begins only after the one before it has returned
NextSerial ==
  \/ manager.calls = <<>> /\ MutateCall
  \/ PersistFile
  \/ MutateReturn
  \/ ProcessCrash
  \/ ProcessRestart

SpecSerial == InitManager /\ [][NextSerial]_vars

\* A writeCSVFile of a persistStore throws (disk full, permission lost): its
\* atomicWriteFile throws before its rename, the file keeps what it held,
\* persistStore rejects and with it the promise of mutate
PersistThrows ==
  \E c \in DOMAIN manager.calls :
    /\ manager.pc = "ready"
    /\ manager.calls[c].pc \in DataFiles
    /\ manager' = [manager EXCEPT !.calls[c].pc = "threw"]
    /\ UNCHANGED <<store, files, call, codec, heap>>

\* The handler's promise rejects and the call is over
MutateRejected ==
  \E c \in DOMAIN manager.calls :
    /\ manager.pc = "ready"
    /\ manager.calls[c].pc = "threw"
    /\ manager' = [manager EXCEPT !.calls =
                     SubSeq(@, 1, c - 1) \o SubSeq(@, c + 1, Len(@))]
    /\ UNCHANGED <<store, files, call, codec, heap>>

\* The server with requests one at a time on a disk whose writes can fail
NextFault ==
  \/ manager.calls = <<>> /\ MutateCall
  \/ PersistFile
  \/ PersistThrows
  \/ MutateReturn
  \/ MutateRejected

SpecFault == InitManager /\ [][NextFault]_vars

----------------------------------------------------------------------------
(* persistStore followed by loadStore, on the text of the files *)

Account(id, currency, balance) ==
  [id |-> id, name |-> <<"a">>, type |-> <<"c", "a", "s", "h">>,
   currency |-> currency, institution |-> <<>>, balance |-> balance,
   hidden |-> FALSE, reconciled |-> <<>>, createdAt |-> <<"2", "0", "2", "5">>]

Transaction(id, accountId, amount) ==
  [id |-> id, type |-> <<"e", "x", "p", "e", "n", "s", "e">>,
   accountId |-> accountId, date |-> <<"2", "0", "2", "5">>, categoryId |-> <<>>,
   description |-> <<"a", ",", "\"", "b">>, payee |-> <<>>,
   transferPairId |-> <<>>, amount |-> amount, notes |-> <<"n", "\n">>,
   source |-> <<"m", "a", "n", "u", "a", "l">>,
   createdAt |-> <<"2", "0", "2", "5">>]

\* The currencies of the first account: precision 2, 0, 8, one the table
\* does not list, and none
Currencies == {USD, JPY, BTC, <<"X", "T", "S">>, <<>>}

Balances == {0, 1050, -12345678}

Amounts == {-105, 12345678}

\* The categories of a ledger: none, one as the Category interface of
\* types.ts declares it, one as createCategory builds it
CategoryLists ==
  {<<>>, <<StoredCategory>>,
   <<[id |-> <<"1">>, type |-> <<"e", "x", "p", "e", "n", "s", "e">>,
      name |-> <<"f", "o", "o", "d">>, group |-> <<"L">>, assigned |-> 150075,
      hidden |-> FALSE]>>}

\* Ledgers of two accounts and a movement on each
RoundTripLedgers ==
  {[accounts |-> <<Account(<<"1">>, first, balance), Account(<<"2">>, second, 5)>>,
    transactions |-> <<Transaction(<<"1">>, <<"1">>, amount),
                       Transaction(<<"2">>, <<"2">>, amount)>>,
    categories |-> categories] :
     first \in Currencies, second \in {JPY, BTC}, balance \in Balances,
     amount \in Amounts, categories \in CategoryLists}

\* await persistStore(store, dataDir), run to its end
PersistStore ==
  /\ manager.pc = "ready"
  /\ files' = [path \in DataFiles |-> File(persistStore(store)[path])]
  /\ manager' = [manager EXCEPT !.pc = "persisted"]
  /\ UNCHANGED <<store, call, codec, heap>>

\* The server is started again on the files written
LoadStore ==
  /\ manager.pc = "persisted"
  /\ store' = loadStore(DataDir(files, manager.denied)).value
  /\ manager' = [manager EXCEPT !.pc = "loaded"]
  /\ UNCHANGED <<files, call, codec, heap>>

InitRoundTrip ==
  /\ store \in RoundTripLedgers
  /\ files = [path \in DataFiles |-> Absent]
  /\ call = IdleCall
  /\ codec = IdleCodec
  /\ heap = IdleHeap
  /\ manager = IdleManager

NextRoundTrip ==
  \/ PersistStore
  \/ LoadStore

SpecRoundTrip == InitRoundTrip /\ [][NextRoundTrip]_vars

----------------------------------------------------------------------------
(* Properties.  A property about one operation quantifies over the inputs   *)
(* the actions draw from and applies the operation to the ledger reached.   *)

\* updateAccount, hideAccount, updateCategory, hideCategory and
\* unhideCategory write only the descriptive fields of accounts and
\* categories (name, type, currency, institution, balance, group, assigned,
\* hidden), which no operation of Next reads; their results are examined at
\* every ledger reached instead of being stored.
AdminStores(s) ==
  {StoreAfter(s, updateAccount(s, id, changes)) :
     id \in AccountIdInputs, changes \in UpdateAccountInputs} \cup
  {StoreAfter(s, hideAccount(s, id)) : id \in AccountIdInputs} \cup
  {StoreAfter(s, updateCategory(s, id, changes)) :
     id \in CategoryIdInputs, changes \in UpdateCategoryInputs} \cup
  {StoreAfter(s, hideCategory(s, id)) : id \in CategoryIdInputs} \cup
  {StoreAfter(s, unhideCategory(s, id)) : id \in CategoryIdInputs}

IsTransferMember(s, id) ==
  Some(s.transactions, id) /\ Find(s.transactions, id).transferPairId # NoId

PairSymmetry(s) ==
  \A i \in DOMAIN s.transactions :
    LET A == s.transactions[i]
    IN  A.transferPairId # NoId =>
          \E j \in DOMAIN s.transactions :
            LET B == s.transactions[j]
            IN  /\ B.id = A.transferPairId
                /\ B.transferPairId = A.id
                /\ A.type = "transfer"
                /\ B.type = "transfer"

\* C1: in every ledger reached from the empty one by successful operations,
\* each movement A with a non-empty transferPairId has a movement B with
\* B.id = A.transferPairId and B.transferPairId = A.id, and both have kind
\* transfer; the same holds after one more account or category update or
\* hide.
C1_TransferPairSymmetry ==
  /\ PairSymmetry(store)
  /\ \A s \in AdminStores(store) : PairSymmetry(s)

\* A pair whose amount was synced and one member recategorised, next to a
\* third movement.
C1_Witness ==
  /\ Len(store.transactions) = 3
  /\ \E i \in DOMAIN store.transactions :
       /\ store.transactions[i].transferPairId # NoId
       /\ store.transactions[i].amount \in SyncAmounts
       /\ store.transactions[i].categoryId # NoId
  /\ \E i \in DOMAIN store.transactions :
       store.transactions[i].type \in UnlinkTypes

AccountIntegrity(s) ==
  \A i \in DOMAIN s.transactions : Some(s.accounts, s.transactions[i].accountId)

\* C2: in every ledger reached, every movement's accountId names an account
\* of the ledger (also after one more account or category update or hide),
\* and deleteAccount fails for every account some movement references.
C2_AccountIntegrity ==
  /\ AccountIntegrity(store)
  /\ \A s \in AdminStores(store) : AccountIntegrity(s)
  /\ \A id \in AccountIdInputs :
       (\E i \in DOMAIN store.transactions : store.transactions[i].accountId = id)
         => ~deleteAccount(store, id).ok

\* The first account was deleted; the remaining one holds movements and its
\* deletion is refused.
C2_Witness ==
  /\ Ids(store.accounts) = {MaxAccountId}
  /\ Len(store.transactions) >= 2
  /\ ~deleteAccount(store, MaxAccountId).ok

CategoryIntegrity(s) ==
  \A i \in DOMAIN s.transactions :
    \/ s.transactions[i].categoryId = NoId
    \/ Some(s.categories, s.transactions[i].categoryId)

\* C3: in every ledger reached, every movement's categoryId is empty or
\* names a category of the ledger, also after one more account or category
\* update or hide.
C3_CategoryIntegrity ==
  /\ CategoryIntegrity(store)
  /\ \A s \in AdminStores(store) : CategoryIntegrity(s)

\* An imported movement whose candidate named a category that does not
\* exist, next to a categorised movement whose category deleteCategory
\* removes.
C3_Witness ==
  /\ \E i \in DOMAIN store.transactions :
       /\ store.transactions[i].source = "import"
       /\ store.transactions[i].categoryId = NoId
  /\ \E i \in DOMAIN store.transactions :
       LET c == store.transactions[i].categoryId
           r == deleteCategory(store, c)
       IN  /\ c # NoId
           /\ r.ok
           /\ r.value.transactions[i].categoryId = NoId
           /\ ~Some(r.value.categories, c)

\* The account owned, before or after, a movement that was created, changed
\* or removed between the two ledgers.
OwnedTouchedMovement(old, new, accountId) ==
  \/ \E i \in DOMAIN old.transactions :
       /\ old.transactions[i].accountId = accountId
       /\ old.transactions[i] \notin Range(new.transactions)
  \/ \E i \in DOMAIN new.transactions :
       /\ new.transactions[i].accountId = accountId
       /\ new.transactions[i] \notin Range(old.transactions)

AutoCleared(old, result) ==
  result.ok =>
    \A i \in DOMAIN result.value.accounts :
      result.value.accounts[i].reconciled # NoDate =>
        ~OwnedTouchedMovement(old, result.value, result.value.accounts[i].id)

\* C4: whenever createTransaction, updateTransaction, deleteTransaction,
\* bulkImportTransactions, createTransfer, syncTransferAmount or
\* unlinkTransfer succeeds, every account that owned a created, changed or
\* removed movement before or after the operation has an empty reconciled
\* field in the resulting ledger.
C4_AutoClear ==
  /\ \A data \in CreateTransactionInputs :
       AutoCleared(store, createTransaction(store, data))
  /\ \A id \in TxIdInputs, changes \in UpdateTransactionInputs :
       AutoCleared(store, updateTransaction(store, id, changes))
  /\ \A id \in TxIdInputs : AutoCleared(store, deleteTransaction(store, id))
  /\ \A data \in BulkImportInputs :
       AutoCleared(store, bulkImportTransactions(store, data))
  /\ \A data \in CreateTransferInputs :
       AutoCleared(store, createTransfer(store, data))
  /\ \A id \in TxIdInputs, newAmount \in SyncAmounts :
       AutoCleared(store, syncTransferAmount(store, id, newAmount))
  /\ \A id \in TxIdInputs, newType \in UnlinkTypes :
       AutoCleared(store, unlinkTransfer(store, id, newType))

\* A reconciled account owns one side of a transfer; deleting the other side,
\* which another account owns, clears it.
C4_Witness ==
  \E i \in DOMAIN store.accounts, j, k \in DOMAIN store.transactions :
    LET a == store.accounts[i]
        r == deleteTransaction(store, store.transactions[j].id)
    IN  /\ a.reconciled # NoDate
        /\ store.transactions[k].accountId = a.id
        /\ store.transactions[j].transferPairId = store.transactions[k].id
        /\ store.transactions[j].accountId # a.id
        /\ r.ok
        /\ Find(r.value.accounts, a.id).reconciled = NoDate

\* C5: deleteTransaction on a member of a transfer pair succeeds and removes
\* exactly that movement and its pair: the remaining movements are the
\* previous ones without those two, unchanged and in their order, and the
\* categories are unchanged.
C5_CascadeDelete ==
  \A id \in TxIdInputs :
    IsTransferMember(store, id) =>
      LET gone == {id, Find(store.transactions, id).transferPairId}
          r == deleteTransaction(store, id)
      IN  /\ r.ok
          /\ Len(r.value.transactions) = Len(store.transactions) - 2
          /\ Ids(r.value.transactions) = Ids(store.transactions) \ gone
          /\ \A i \in DOMAIN store.transactions :
               store.transactions[i].id \notin gone =>
                 store.transactions[i] \in Range(r.value.transactions)
          /\ \A i, j \in DOMAIN r.value.transactions :
               i < j =>
                 FindIndex(store.transactions, r.value.transactions[i].id) <
                   FindIndex(store.transactions, r.value.transactions[j].id)
          /\ r.value.categories = store.categories

\* A pair next to a categorised third movement; deleting a member leaves
\* the third movement alone.
C5_Witness ==
  /\ Len(store.transactions) = 3
  /\ store.categories # <<>>
  /\ \E i, j \in DOMAIN store.transactions :
       LET r == deleteTransaction(store, store.transactions[i].id)
       IN  /\ store.transactions[i].transferPairId # NoId
           /\ store.transactions[j].transferPairId = NoId
           /\ store.transactions[j].categoryId # NoId
           /\ r.ok
           /\ r.value.transactions = <<store.transactions[j]>>

\* C6: deleteCategory on an existing category succeeds, removes exactly that
\* category, empties categoryId on exactly the movements that referenced it,
\* and changes nothing else: the other fields, the other movements, the
\* other categories and all accounts (their reconciled field included).
C6_NullifyOnDelete ==
  \A id \in CategoryIdInputs :
    Some(store.categories, id) =>
      LET r == deleteCategory(store, id)
      IN  /\ r.ok
          /\ Len(r.value.categories) = Len(store.categories) - 1
          /\ ~Some(r.value.categories, id)
          /\ \A i \in DOMAIN store.categories :
               store.categories[i].id # id =>
                 store.categories[i] \in Range(r.value.categories)
          /\ Len(r.value.transactions) = Len(store.transactions)
          /\ \A i \in DOMAIN store.transactions :
               r.value.transactions[i] =
                 IF store.transactions[i].categoryId = id
                   THEN [store.transactions[i] EXCEPT !.categoryId = NoId]
                   ELSE store.transactions[i]
          /\ r.value.accounts = store.accounts

\* Two categories, a movement in the first, a movement in none, and a
\* reconciled account that stays reconciled when the first is deleted.
C6_Witness ==
  /\ Ids(store.categories) = 1..MaxCategoryId
  /\ \E i, j \in DOMAIN store.transactions, a \in DOMAIN store.accounts :
       LET r == deleteCategory(store, store.transactions[i].categoryId)
       IN  /\ store.transactions[i].categoryId # NoId
           /\ store.transactions[j].categoryId = NoId
           /\ store.accounts[a].reconciled # NoDate
           /\ r.ok
           /\ Len(r.value.categories) = MaxCategoryId - 1
           /\ r.value.transactions[i].categoryId = NoId
           /\ r.value.accounts[a].reconciled # NoDate

\* C7: deleteAccount on an account that a movement references fails with a
\* conflict, which the delete route answers differently from account not
\* found, and the ledger is unchanged; on an existing account that no
\* movement references it succeeds and removes exactly that account.
C7_BlockAccountDelete ==
  \A id \in AccountIdInputs :
    Some(store.accounts, id) =>
      LET r == deleteAccount(store, id)
      IN  IF \E i \in DOMAIN store.transactions : store.transactions[i].accountId = id
            THEN /\ ~r.ok
                 /\ deleteAccountStatus(r) = ConflictStatus
                 /\ deleteAccountStatus(r) # deleteAccountStatus(deleteAccount(EmptyStore, id))
                 /\ r.error # deleteAccount(EmptyStore, id).error
                 /\ StoreAfter(store, r) = store
            ELSE /\ r.ok
                 /\ Len(r.value.accounts) = Len(store.accounts) - 1
                 /\ ~Some(r.value.accounts, id)
                 /\ \A i \in DOMAIN store.accounts :
                      store.accounts[i].id # id =>
                        store.accounts[i] \in Range(r.value.accounts)
                 /\ r.value.transactions = store.transactions
                 /\ r.value.categories = store.categories

\* Two accounts: one with a movement, whose deletion is refused as a
\* conflict, and one without, whose deletion succeeds.
C7_Witness ==
  \E i, j \in DOMAIN store.accounts :
    /\ \E k \in DOMAIN store.transactions :
         store.transactions[k].accountId = store.accounts[i].id
    /\ \A k \in DOMAIN store.transactions :
         store.transactions[k].accountId # store.accounts[j].id
    /\ deleteAccountStatus(deleteAccount(store, store.accounts[i].id)) = ConflictStatus
    /\ deleteAccount(store, store.accounts[j].id).ok

KeepsMemberAmounts(old, result) ==
  result.ok =>
    \A i \in DOMAIN old.transactions, j \in DOMAIN result.value.transactions :
      /\ old.transactions[i].transferPairId # NoId
      /\ result.value.transactions[j].id = old.transactions[i].id
      => result.value.transactions[j].amount = old.transactions[i].amount

KeepsMemberKinds(old, result) ==
  result.ok =>
    \A i \in DOMAIN old.transactions, j \in DOMAIN result.value.transactions :
      /\ old.transactions[i].transferPairId # NoId
      /\ result.value.transactions[j].id = old.transactions[i].id
      => result.value.transactions[j].type = old.transactions[i].type

KeepsMembers(old, result) ==
  KeepsMemberAmounts(old, result) /\ KeepsMemberKinds(old, result)

C10_SyncTransferAmount ==
  \A id \in TxIdInputs, newAmount \in SyncAmountInputs :
    IsTransferMember(store, id) /\ PairSymmetry(store) =>
      LET t == Find(store.transactions, id)
          pair == Find(store.transactions, t.transferPairId)
          r == syncTransferAmount(store, id, newAmount)
      IN  /\ r.ok
          /\ Len(r.value.transactions) = Len(store.transactions)
          /\ \A i \in DOMAIN store.transactions :
               r.value.transactions[i] =
                 IF store.transactions[i].id = id
                   THEN [store.transactions[i] EXCEPT !.amount = newAmount]
                 ELSE IF store.transactions[i].id = pair.id
                   THEN [store.transactions[i] EXCEPT !.amount = -newAmount]
                 ELSE store.transactions[i]
          /\ \A a \in DOMAIN r.value.accounts :
               r.value.accounts[a].id \in {t.accountId, pair.accountId} =>
                 r.value.accounts[a].reconciled = NoDate

\* A synced pair (amounts newAmount and -newAmount) next to a third
\* movement, one member owned by a reconciled account that a further sync
\* clears.
C10_Witness ==
  \E i, j, k \in DOMAIN store.transactions, a \in DOMAIN store.accounts :
    LET r == syncTransferAmount(store, store.transactions[i].id, 0)
    IN  /\ store.transactions[i].transferPairId = store.transactions[j].id
        /\ store.transactions[i].amount \in SyncAmounts
        /\ store.transactions[j].amount = -store.transactions[i].amount
        /\ store.transactions[k].transferPairId = NoId
        /\ store.accounts[a].reconciled # NoDate
        /\ store.accounts[a].id = store.transactions[j].accountId
        /\ r.ok
        /\ r.value.transactions[k] = store.transactions[k]
        /\ r.value.accounts[a].reconciled = NoDate

\* C11: syncTransferAmount and unlinkTransfer fail, and the ledger is
\* unchanged, when the movement does not exist or its kind is not transfer
\* (whatever its transferPairId); syncTransferAmount also fails when the pair
\* of a movement of kind transfer is not in the ledger (a not-found failure)
\* and when the pair is there but its kind is not transfer (a failure that is
\* not a not-found failure).
C11_SyncUnlinkRejections ==
  \A id \in TxIdInputs, newAmount \in SyncAmounts, newType \in UnlinkTypes :
    LET sync == syncTransferAmount(store, id, newAmount)
        unlink == unlinkTransfer(store, id, newType)
        t == Find(store.transactions, id)
    IN  IF ~Some(store.transactions, id) \/ t.type # "transfer"
          THEN /\ ~sync.ok /\ StoreAfter(store, sync) = store
               /\ ~unlink.ok /\ StoreAfter(store, unlink) = store
        ELSE IF ~Some(store.transactions, t.transferPairId)
          THEN /\ ~sync.ok /\ StoreAfter(store, sync) = store
               /\ t.transferPairId # NoId => includesNotFound(sync.error)
        ELSE IF Find(store.transactions, t.transferPairId).type # "transfer"
          THEN /\ ~sync.ok /\ StoreAfter(store, sync) = store
               /\ ~includesNotFound(sync.error)
        ELSE TRUE

\* The sum of the amounts of the movements of an account
RECURSIVE AmountsFrom(_, _, _)
AmountsFrom(transactions, accountId, i) ==
  IF i > Len(transactions) THEN 0
  ELSE (IF transactions[i].accountId = accountId THEN transactions[i].amount ELSE 0)
       + AmountsFrom(transactions, accountId, i + 1)

WorkingBalance(s, accountId) == AmountsFrom(s.transactions, accountId, 1)

\* C12: reconcileAccount on an existing account succeeds exactly when the
\* reported balance equals the sum of the amounts of the account's
\* movements.  On success only that account changes, to balance =
\* reportedBalance and a non-empty reconciled date; movements and categories
\* are unchanged.  On failure the ledger is unchanged and the error carries
\* reportedBalance - workingBalance.
C12_Reconcile ==
  \A id \in AccountIdInputs, reportedBalance \in ReportedBalanceInputs :
    Some(store.accounts, id) =>
      LET r == reconcileAccount(store, id, reportedBalance)
          workingBalance == WorkingBalance(store, id)
      IN  /\ r.ok <=> reportedBalance = workingBalance
          /\ r.ok =>
               /\ r.value.transactions = store.transactions
               /\ r.value.categories = store.categories
               /\ Len(r.value.accounts) = Len(store.accounts)
               /\ \A i \in DOMAIN store.accounts :
                    IF store.accounts[i].id = id
                      THEN /\ r.value.accounts[i].reconciled # NoDate
                           /\ r.value.accounts[i] =
                                [store.accounts[i] EXCEPT
                                   !.balance = reportedBalance,
                                   !.reconciled = r.value.accounts[i].reconciled]
                      ELSE r.value.accounts[i] = store.accounts[i]
          /\ ~r.ok =>
               /\ StoreAfter(store, r) = store
               /\ \E k \in DOMAIN r.error :
                    r.error[k] = ToString(reportedBalance - workingBalance)

\* An account that was reconciled while it held two movements that cancel,
\* beside a second account whose working balance is not zero: a reported
\* balance equal to it is accepted and a different one is refused.
C12_Witness ==
  \E i, j \in DOMAIN store.accounts :
    LET a == store.accounts[i]
        b == store.accounts[j]
    IN  /\ a.reconciled # NoDate
        /\ Cardinality({k \in DOMAIN store.transactions :
                          store.transactions[k].accountId = a.id}) = 2
        /\ WorkingBalance(store, b.id) # 0
        /\ reconcileAccount(store, b.id, WorkingBalance(store, b.id)).ok
        /\ ~reconcileAccount(store, b.id, 0).ok

\* C13: createBalanceAdjustment on an existing account fails when the
\* reported balance equals the working balance; otherwise it appends exactly
\* one movement on that account, of amount reportedBalance - workingBalance,
\* kind income if positive and expense if negative, source reconciliation,
\* after which the working balance equals the reported balance and
\* reconcileAccount with that balance succeeds.
C13_BalanceAdjustment ==
  \A id \in AccountIdInputs, reportedBalance \in ReportedBalanceInputs :
    Some(store.accounts, id) =>
      LET r == createBalanceAdjustment(store, id, reportedBalance)
          discrepancy == reportedBalance - WorkingBalance(store, id)
      IN  IF discrepancy = 0 THEN ~r.ok
          ELSE /\ r.ok
               /\ Len(r.value.transactions) = Len(store.transactions) + 1
               /\ SubSeq(r.value.transactions, 1, Len(store.transactions)) =
                    store.transactions
               /\ LET t == r.value.transactions[Len(r.value.transactions)]
                  IN  /\ t.accountId = id
                      /\ t.amount = discrepancy
                      /\ t.type = IF discrepancy > 0 THEN "income" ELSE "expense"
                      /\ t.source = "reconciliation"
               /\ WorkingBalance(r.value, id) = reportedBalance
               /\ reconcileAccount(r.value, id, reportedBalance).ok

\* Two accounts with movements, one with a negative working balance: an
\* adjustment to zero adds an income, after which reconciling to zero
\* succeeds where it failed before.
C13_Witness ==
  /\ Len(store.transactions) = MaxTx
  /\ \E i, j \in DOMAIN store.accounts :
       LET a == store.accounts[i]
           r == createBalanceAdjustment(store, a.id, 0)
       IN  /\ WorkingBalance(store, a.id) < 0
           /\ WorkingBalance(store, store.accounts[j].id) > 0
           /\ ~reconcileAccount(store, a.id, 0).ok
           /\ r.ok
           /\ r.value.transactions[MaxTx + 1].type = "income"
           /\ reconcileAccount(r.value, a.id, 0).ok

\* C14: createTransfer fails, and the ledger is unchanged, when the two
\* accounts are the same, the amount is zero, the date is malformed or one
\* of the accounts does not exist.  Otherwise it appends exactly two
\* movements of kind transfer with distinct ids that no existing movement
\* has: an outflow of -|amount| on fromAccountId and an inflow of +|amount|
\* on toAccountId, each naming the other in transferPairId, and reconciled
\* is empty on both accounts.
C14_CreateTransfer ==
  \A d \in CreateTransferInputs, amount \in TransferAmountInputs :
    LET data == [d EXCEPT !.amount = amount]
        r == createTransfer(store, data)
        n == Len(store.transactions)
        magnitude == IF amount < 0 THEN -amount ELSE amount
    IN  IF \/ data.fromAccountId = data.toAccountId
           \/ amount = 0
           \/ data.date = NoDate
           \/ ~Some(store.accounts, data.fromAccountId)
           \/ ~Some(store.accounts, data.toAccountId)
          THEN ~r.ok /\ StoreAfter(store, r) = store
          ELSE /\ r.ok
               /\ Len(r.value.transactions) = n + 2
               /\ SubSeq(r.value.transactions, 1, n) = store.transactions
               /\ LET outflow == r.value.transactions[n + 1]
                      inflow == r.value.transactions[n + 2]
                  IN  /\ outflow.type = "transfer" /\ inflow.type = "transfer"
                      /\ outflow.id # inflow.id
                      /\ {outflow.id, inflow.id} \cap Ids(store.transactions) = {}
                      /\ outflow.accountId = data.fromAccountId
                      /\ outflow.amount = -magnitude
                      /\ inflow.accountId = data.toAccountId
                      /\ inflow.amount = magnitude
                      /\ outflow.transferPairId = inflow.id
                      /\ inflow.transferPairId = outflow.id
               /\ \A a \in DOMAIN r.value.accounts :
                    r.value.accounts[a].id \in {data.fromAccountId, data.toAccountId}
                      => r.value.accounts[a].reconciled = NoDate

\* A ledger that holds a transfer with both sides, in which a further
\* transfer into a reconciled account succeeds and clears it.
C14_Witness ==
  /\ \E i, j \in DOMAIN store.transactions :
       /\ store.transactions[i].transferPairId = store.transactions[j].id
       /\ store.transactions[i].amount = -store.transactions[j].amount
       /\ store.transactions[i].accountId # store.transactions[j].accountId
  /\ \E a \in DOMAIN store.accounts, data \in CreateTransferInputs :
       LET r == createTransfer(store, data)
       IN  /\ store.accounts[a].reconciled # NoDate
           /\ data.toAccountId = store.accounts[a].id
           /\ r.ok
           /\ r.value.accounts[a].reconciled = NoDate

\* C15: unlinkTransfer on a member of a well-formed pair succeeds; in the
\* result the movement has kind newType and an empty transferPairId with its
\* other fields unchanged, its former pair is gone, every other movement is
\* unchanged and in its place, and reconciled is empty on the accounts that
\* owned the two movements.
C15_UnlinkTransfer ==
  \A id \in TxIdInputs, newType \in {"income", "expense"} :
    IsTransferMember(store, id) /\ PairSymmetry(store) =>
      LET t == Find(store.transactions, id)
          pair == Find(store.transactions, t.transferPairId)
          r == unlinkTransfer(store, id, newType)
      IN  /\ r.ok
          /\ Len(r.value.transactions) = Len(store.transactions) - 1
          /\ ~Some(r.value.transactions, pair.id)
          /\ \A i \in DOMAIN store.transactions :
               store.transactions[i].id # pair.id =>
                 LET j == FindIndex(r.value.transactions, store.transactions[i].id)
                 IN  /\ j = IF i < FindIndex(store.transactions, pair.id)
                              THEN i ELSE i - 1
                     /\ r.value.transactions[j] =
                          IF store.transactions[i].id = id
                            THEN [t EXCEPT !.type = newType, !.transferPairId = NoId]
                            ELSE store.transactions[i]
          /\ \A a \in DOMAIN r.value.accounts :
               r.value.accounts[a].id \in {t.accountId, pair.accountId} =>
                 r.value.accounts[a].reconciled = NoDate

\* A pair beside a third movement; the pair of the member that is unlinked
\* belongs to a reconciled account, which the operation clears.
C15_Witness ==
  \E i, j, k \in DOMAIN store.transactions, a \in DOMAIN store.accounts :
    LET r == unlinkTransfer(store, store.transactions[i].id, "expense")
    IN  /\ store.transactions[i].transferPairId = store.transactions[j].id
        /\ store.transactions[k].transferPairId = NoId
        /\ store.accounts[a].id = store.transactions[j].accountId
        /\ store.accounts[a].id # store.transactions[i].accountId
        /\ store.accounts[a].reconciled # NoDate
        /\ r.ok
        /\ Len(r.value.transactions) = 2
        /\ r.value.accounts[a].reconciled = NoDate

\* A movement has a non-empty transferPairId exactly when its kind is
\* transfer, and a movement of kind transfer names exactly one other
\* movement, which names it back.
KindAndPairingAgree(s) ==
  \A i \in DOMAIN s.transactions :
    LET t == s.transactions[i]
    IN  /\ t.transferPairId # NoId <=> t.type = "transfer"
        /\ t.type = "transfer" =>
             /\ t.transferPairId # t.id
             /\ Cardinality({j \in DOMAIN s.transactions :
                               s.transactions[j].id = t.transferPairId}) = 1
             /\ \A j \in DOMAIN s.transactions :
                  s.transactions[j].id = t.transferPairId =>
                    s.transactions[j].transferPairId = t.id

\* C16: in every ledger reached from the empty one by successful
\* operations, a movement has a non-empty transferPairId if and only if its
\* kind is transfer, and every movement of kind transfer is paired with
\* exactly one other movement that references it back.
C16_KindAndPairingAgree == KindAndPairingAgree(store)

\* No two records of the collection carry the same id
UniqueIds(records) == Cardinality(Ids(records)) = Len(records)

\* The records of after that before does not hold carry ids above every id
\* of before, and after holds no id twice.
FreshIds(before, after) ==
  /\ UniqueIds(after)
  /\ \A i \in DOMAIN after :
       after[i].id \notin Ids(before) => after[i].id > Max(Ids(before))

FreshIdsIn(s, result) ==
  result.ok =>
    /\ FreshIds(s.accounts, result.value.accounts)
    /\ FreshIds(s.transactions, result.value.transactions)
    /\ FreshIds(s.categories, result.value.categories)

\* C17: starting from the empty ledger, no collection of a ledger reached
\* by successful operations holds an id twice, and every record that a
\* create, a bulk import or a transfer adds carries an id greater than the
\* largest id its collection held just before the operation.
C17_IdUniqueness ==
  /\ UniqueIds(store.accounts)
  /\ UniqueIds(store.transactions)
  /\ UniqueIds(store.categories)
  /\ \A data \in CreateAccountInputs :
       FreshIdsIn(store, createAccount(store, data))
  /\ \A data \in CreateCategoryInputs :
       FreshIdsIn(store, createCategory(store, data))
  /\ \A data \in CreateTransactionInputs :
       FreshIdsIn(store, createTransaction(store, data))
  /\ \A data \in BulkImportInputs :
       FreshIdsIn(store, bulkImportTransactions(store, data))
  /\ \A data \in CreateTransferInputs :
       FreshIdsIn(store, createTransfer(store, data))

\* A transfer is created in a ledger whose movements have a gap below the
\* largest id (an earlier movement was deleted): two new ids are assigned.
C17_Witness ==
  \E data \in CreateTransferInputs :
    LET result == createTransfer(store, data)
    IN  /\ store.transactions # <<>>
        /\ Max(Ids(store.transactions)) > Len(store.transactions)
        /\ result.ok
        /\ Len(result.value.transactions) = Len(store.transactions) + 2

\* The records of after that between does not hold carry ids above every
\* id of earlier, a collection of the ledger's history.
AboveEarlierIds(earlier, between, after) ==
  \A i \in DOMAIN after :
    after[i].id \notin Ids(between) => after[i].id > Max(Ids(earlier))

\* C18: ids increase over the history of a collection: a record created
\* after a delete carries an id greater than every id the collection held
\* before the delete, so no id is assigned a second time.
C18_IdsNeverReused ==
  /\ \A id \in TxIdInputs, data \in CreateTransactionInputs :
       LET deleted == deleteTransaction(store, id)
           created == createTransaction(StoreAfter(store, deleted), data)
       IN  deleted.ok /\ created.ok =>
             AboveEarlierIds(store.transactions, deleted.value.transactions,
                             created.value.transactions)
  /\ \A id \in AccountIdInputs, data \in CreateAccountInputs :
       LET deleted == deleteAccount(store, id)
           created == createAccount(StoreAfter(store, deleted), data)
       IN  deleted.ok /\ created.ok =>
             AboveEarlierIds(store.accounts, deleted.value.accounts,
                             created.value.accounts)
  /\ \A id \in CategoryIdInputs, data \in CreateCategoryInputs :
       LET deleted == deleteCategory(store, id)
           created == createCategory(StoreAfter(store, deleted), data)
       IN  deleted.ok /\ created.ok =>
             AboveEarlierIds(store.categories, deleted.value.categories,
                             created.value.categories)

\* The steps of a call before its rename, the failed call included
BeforeRename == {"called", "opened", "written", "synced", "closed", "failed"}

\* C19: while a call of atomicWriteFile has not renamed, the target holds
\* the file it held when the call began, also when the process stops
\* there; once it has renamed, the target holds the whole new content; a
\* reader of the target never finds anything but one of the two.
C19_WriteAtomicity ==
  call.pc # "idle" =>
    /\ call.pc \in BeforeRename => files[call.filePath] = call.before
    /\ call.pc = "renamed" => files[call.filePath] = File(call.content)
    /\ files[call.filePath] \in {call.before, File(call.content)}

\* The process stopped while the temp file held a proper, non-empty part
\* of the new content, over a target that held other content.
C19_Witness ==
  /\ call.crashed
  /\ call.pc = "opened"
  /\ call.before.exists
  /\ call.before.content # call.content
  /\ Len(files[call.tmpPath].content) \in 1..(Len(call.content) - 1)

\* C20: a record serialized and then deserialized with the schema of its
\* entity and the same precision (0, 2 or 8) is the record again, its
\* money fields the same integers.
C20_CodecRoundTrip ==
  codec.pc = "decoded" => codec.decoded = codec.record

\* The ledgers one successful engine operation makes of s, over the inputs
\* of the actions; an account update may also name the hidden flag.
EngineStores(s) ==
  LET results ==
        {createAccount(s, data) : data \in CreateAccountInputs} \cup
        {updateAccount(s, id, changes) :
           id \in AccountIdInputs,
           changes \in UpdateAccountInputs \cup {[hidden |-> FALSE]}} \cup
        {hideAccount(s, id) : id \in AccountIdInputs} \cup
        {deleteAccount(s, id) : id \in AccountIdInputs} \cup
        {reconcileAccount(s, id, reportedBalance) :
           id \in AccountIdInputs, reportedBalance \in ReportedBalanceInputs} \cup
        {createCategory(s, data) : data \in CreateCategoryInputs} \cup
        {updateCategory(s, id, changes) :
           id \in CategoryIdInputs,
           changes \in UpdateCategoryInputs \cup {[hidden |-> FALSE]}} \cup
        {hideCategory(s, id) : id \in CategoryIdInputs} \cup
        {unhideCategory(s, id) : id \in CategoryIdInputs} \cup
        {deleteCategory(s, id) : id \in CategoryIdInputs} \cup
        {createTransaction(s, data) : data \in CreateTransactionInputs} \cup
        {updateTransaction(s, id, changes) :
           id \in TxIdInputs, changes \in UpdateTransactionInputs} \cup
        {deleteTransaction(s, id) : id \in TxIdInputs} \cup
        {bulkImportTransactions(s, data) : data \in BulkImportInputs} \cup
        {createTransfer(s, data) : data \in CreateTransferInputs} \cup
        {syncTransferAmount(s, id, newAmount) :
           id \in TxIdInputs, newAmount \in SyncAmountInputs} \cup
        {unlinkTransfer(s, id, newType) :
           id \in TxIdInputs, newType \in UnlinkTypes}
  IN  {result.value : result \in {r \in results : r.ok}}

\* s with the hidden flag of account id, or of category id, set to false
ShownAccount(s, id) ==
  [s EXCEPT !.accounts[FindIndex(s.accounts, id)].hidden = FALSE]

ShownCategory(s, id) ==
  [s EXCEPT !.categories[FindIndex(s.categories, id)].hidden = FALSE]

\* C21: from every ledger in which hideAccount or hideCategory has hidden a
\* record, one engine operation leads to the ledger that differs only in
\* that record's hidden flag being false again.
C21_HideReversible ==
  /\ \A id \in CategoryIdInputs :
       LET hidden == hideCategory(store, id)
       IN  hidden.ok => ShownCategory(hidden.value, id) \in EngineStores(hidden.value)
  /\ \A id \in AccountIdInputs :
       LET hidden == hideAccount(store, id)
       IN  hidden.ok => ShownAccount(hidden.value, id) \in EngineStores(hidden.value)

\* C22: whatever operations were applied to a ledger object, successful or
\* failed, its arrays hold the accounts, movements and categories they
\* held when the caller took it, so each operation reads the ledger the
\* caller gave.
C22_PureOperations ==
  Deref(heap.arrays, GivenRef) = heap.snapshot

\* An operation that assigns into its copy of the movements succeeded and
\* its result differs from the given ledger.
C22_Witness ==
  /\ heap.ok
  /\ Handling[heap.op].transactions = "assigned"
  /\ heap.output.transactions # GivenRef.transactions
  /\ Deref(heap.arrays, heap.output).transactions # heap.snapshot.transactions

\* C24: deserialize gives, for every raw row, a record with exactly the
\* fields of the schema: a string field is the raw string, or empty when
\* its key is missing; a boolean field is true exactly when the raw string
\* is 'true'; a money or number field is a number, and 0 when its key is
\* missing or its raw string is empty or not a number; keys outside the
\* schema do not appear.
C24_DeserializeTotal ==
  codec.pc = "decoded" =>
    /\ DOMAIN codec.decoded = fieldNames(codec.schema)
    /\ \A name \in fieldNames(codec.schema) :
         LET type == FieldDef(codec.schema, name).type
             missing == name \notin DOMAIN codec.raw
             value == codec.decoded[name]
         IN  CASE type = "string" ->
                    value = IF missing THEN <<>> ELSE codec.raw[name]
               [] type = "boolean" ->
                    value = (~missing /\ codec.raw[name] = <<"t", "r", "u", "e">>)
               [] OTHER ->
                    /\ value \in Int
                    /\ (missing \/ codec.raw[name] \in NonNumericValues \cup {<<>>})
                         => value = 0

\* A row that lacks a key of the schema, has a key outside it and holds a
\* string that is not a number was deserialized.
C24_Witness ==
  /\ codec.pc = "decoded"
  /\ codec.record = NoRecord
  /\ fieldNames(codec.schema) \ DOMAIN codec.raw # {}
  /\ DOMAIN codec.raw \ fieldNames(codec.schema) # {}
  /\ \E name \in fieldNames(codec.schema) \cap DOMAIN codec.raw :
       /\ FieldDef(codec.schema, name).type = "money"
       /\ codec.raw[name] \in NonNumericValues

\* A data file that holds no record: it is absent, or its text is a header row
NoRecords(path) ==
  \/ ~files[path].exists
  \/ files[path].content = persistStore(EmptyStore)[path]

\* A data file that is there and that the process may not read
Unreadable(path) == files[path].exists /\ path \in manager.denied

\* C23: loadStore returns an empty collection for a data file that is absent
\* or holds only a header row, and a read that fails for another reason than
\* absence (permission denied) is surfaced to the caller as a failure, not
\* turned into an empty collection.
C23_AbsenceVersusFailure ==
  manager.pc = "start" =>
    LET loaded == loadStore(DataDir(files, manager.denied))
    IN  /\ \A path \in DataFiles :
             /\ NoRecords(path)
             /\ \A other \in DataFiles : ~Unreadable(other)
             => ~loaded.threw /\ loaded.value[path] = <<>>
        /\ (\E path \in DataFiles : Unreadable(path)) => loaded.threw

\* The half of C23 the code keeps
C23_NoRecordsLoadEmpty ==
  manager.pc = "start" =>
    LET loaded == loadStore(DataDir(files, manager.denied))
    IN  \A path \in DataFiles :
          NoRecords(path)
          => ~loaded.threw /\ loaded.value[path] = <<>>

C23_LoadedRecord ==
  /\ manager.pc = "ready"
  /\ store.accounts = <<StoredAccount>>
  /\ store.transactions = <<>>
  /\ files.transactions.exists

\* The key of a candidate on the account it is imported onto
CandidateKey(accountId, input) ==
  deduplicationKey([date |-> input.date, accountId |-> accountId,
                    amount |-> input.amount, description |-> input.description])

\* The keys of the movements of an account
KeysOf(s, accountId) ==
  {deduplicationKey(s.transactions[i]) :
     i \in {j \in DOMAIN s.transactions : s.transactions[j].accountId = accountId}}

BeforeReconciled(s, accountId, input) ==
  /\ Find(s.accounts, accountId).reconciled # NoDate
  /\ input.date < Find(s.accounts, accountId).reconciled

Invalid(accountId, input) ==
  validateTransaction([type |-> input.type, accountId |-> accountId,
                       date |-> input.date, amount |-> input.amount]) # <<>>

Duplicate(s, accountId, input) == CandidateKey(accountId, input) \in KeysOf(s, accountId)

\* A candidate the ledger s gives a reason to skip
Skipped(s, accountId, input) ==
  \/ BeforeReconciled(s, accountId, input)
  \/ Invalid(accountId, input)
  \/ Duplicate(s, accountId, input)

\* C25: a bulkImportTransactions call on an existing account in which every
\* candidate is a duplicate, dated before the reconciled date, or invalid
\* succeeds and returns the input ledger itself: no movement is added and the
\* account keeps its reconciled date.
C25_ImportNothing ==
  \A data \in BulkImportInputs :
    /\ Some(store.accounts, data.accountId)
    /\ \A i \in DOMAIN data.transactions :
         Skipped(store, data.accountId, data.transactions[i])
    => bulkImportTransactions(store, data) = Ok(store)

\* A reconciled account is given a batch of one candidate dated before the
\* reconciled date and one duplicate
C25_Witness ==
  \E data \in BulkImportInputs :
    /\ Some(store.accounts, data.accountId)
    /\ Find(store.accounts, data.accountId).reconciled # NoDate
    /\ \E i, j \in DOMAIN data.transactions :
         /\ BeforeReconciled(store, data.accountId, data.transactions[i])
         /\ ~BeforeReconciled(store, data.accountId, data.transactions[j])
         /\ Duplicate(store, data.accountId, data.transactions[j])
    /\ \A i \in DOMAIN data.transactions :
         Skipped(store, data.accountId, data.transactions[i])
    /\ bulkImportTransactions(store, data) = Ok(store)

\* The movements a result adds to the ledger it was given
Added(s, result) ==
  SubSeq(result.value.transactions, Len(s.transactions) + 1,
         Len(result.value.transactions))

\* The movement is the candidate, imported onto the account
ImportedFrom(s, accountId, input, t) ==
  /\ t.accountId = accountId
  /\ t.type = input.type
  /\ t.date = input.date
  /\ t.amount = input.amount
  /\ t.description = Trim(input.description)
  /\ t.transferPairId = NoId
  /\ t.source = (IF input.source = Undefined THEN "import" ELSE input.source)
  /\ t.categoryId = (IF Some(s.categories, input.categoryId)
                     THEN input.categoryId ELSE NoId)

\* The candidates of a batch that come after an equal-keyed candidate of the
\* batch that the ledger gives no reason to skip
Repeated(s, data, i) ==
  \E j \in 1..(i - 1) :
    /\ ~Skipped(s, data.accountId, data.transactions[j])
    /\ CandidateKey(data.accountId, data.transactions[j])
         = CandidateKey(data.accountId, data.transactions[i])

\* The candidates imported: those neither skipped nor repeated, in batch order
ImportedIndexes(s, data) ==
  {i \in DOMAIN data.transactions :
     ~Skipped(s, data.accountId, data.transactions[i]) /\ ~Repeated(s, data, i)}

\* C26: bulkImportTransactions filters per candidate without aborting the
\* batch.  On an existing account the call succeeds; a candidate is skipped if
\* its date is strictly before the account's non-empty reconciled date, if it
\* fails validation, or if its key already exists among the account's
\* movements (those imported before it in the batch included); every other
\* candidate is appended, in batch order, on the target account, with source
\* import unless the candidate names one and with its categoryId if that
\* names an existing category, otherwise empty.  The movements already there
\* are kept.
C26_ImportFiltersPerCandidate ==
  \A data \in BulkImportInputs :
    Some(store.accounts, data.accountId) =>
      LET result == bulkImportTransactions(store, data)
          added == Added(store, result)
          imported == ImportedIndexes(store, data)
      IN  /\ result.ok
          /\ SubSeq(result.value.transactions, 1, Len(store.transactions))
               = store.transactions
          /\ Len(added) = Cardinality(imported)
          /\ \A k \in DOMAIN added :
               \E i \in imported :
                 /\ Cardinality({j \in imported : j < i}) = k - 1
                 /\ ImportedFrom(store, data.accountId, data.transactions[i],
                                 added[k])

\* A batch of two candidates on a reconciled account: the first is dated
\* before the reconciled date and is skipped, the second is imported
C26_Witness ==
  \E data \in BulkImportInputs :
    /\ Some(store.accounts, data.accountId)
    /\ Len(data.transactions) = 2
    /\ BeforeReconciled(store, data.accountId, data.transactions[1])
    /\ ImportedIndexes(store, data) = {2}
    /\ Len(Added(store, bulkImportTransactions(store, data))) = 1

\* A candidate whose category does not exist is imported uncategorized, with
\* source import by default
C26_WitnessUncategorized ==
  \E data \in BulkImportInputs :
    /\ Some(store.accounts, data.accountId)
    /\ ImportedIndexes(store, data) = {1}
    /\ data.transactions[1].categoryId # NoId
    /\ data.transactions[1].source = Undefined
    /\ Added(store, bulkImportTransactions(store, data))[1].categoryId = NoId
    /\ Added(store, bulkImportTransactions(store, data))[1].source = "import"

\* The call that a step has begun, if it has begun one
Began == Len(manager'.calls) > Len(manager.calls)

NewCall == manager'.calls[Len(manager'.calls)]

\* C27: mutate(fn).  When fn returns a failure, the store in memory and the
\* files are unchanged and no persist is started; when fn returns success,
\* the store in memory becomes fn's result and that result is what is
\* written to the files.
C27_MutateSwapsAndPersists ==
  [][/\ Began =>
          LET result == Run(store, NewCall.request)
          IN  /\ files' = files
              /\ IF result.ok
                 THEN /\ store' = result.value
                      /\ NewCall.persisting = result.value
                      /\ NewCall.pc = FileOrder[1]
                 ELSE /\ store' = store
                      /\ NewCall.pc = "returned"
     /\ \A path \in DataFiles :
          files'[path] # files[path] =>
            \E c \in DOMAIN manager.calls :
              LET this == manager.calls[c]
                  result == Run(this.current, this.request)
              IN  /\ result.ok
                  /\ this.pc = path
                  /\ files'[path] = File(result.value[path])]_vars

\* One call has succeeded and its result is in memory and in the files;
\* another has failed and has left both alone
C27_Witness ==
  \E c, d \in DOMAIN manager.calls :
    LET done == manager.calls[c]
        failed == manager.calls[d]
    IN  /\ done.ok /\ done.pc = "returned"
        /\ done.persisting # done.current
        /\ store = done.persisting
        /\ DiskStore(files) = done.persisting
        /\ ~failed.ok /\ failed.pc = "returned"
        /\ failed.current = store

\* No call to mutate is under way
Quiet == manager.pc = "ready" /\ \A c \in DOMAIN manager.calls :
                                   manager.calls[c].pc = "returned"

\* C28: single writer.  When two calls to mutate overlap, once both have
\* completed the three files hold exactly the store in memory: not files
\* written from two different stores, not an older store over a newer one.
C28_SingleWriter == Quiet => DiskStore(files) = store

\* C29: persistStore writes the three files atomically.  After a crash at
\* any point of a persistStore, the three files together hold either the
\* store persisted before it or the store it was writing.
C29_PersistAllOrNothing ==
  manager.pc = "crashed" =>
    \A c \in DOMAIN manager.calls :
      DiskStore(files) \in {manager.calls[c].current, manager.calls[c].persisting}

\* The ledger loadStore returns from the files persistStore writes for s
Reloaded(s) ==
  loadStore(DataDir([path \in DataFiles |-> File(persistStore(s)[path])], {})).value

\* C30: persist/load round trip with cross-entity precision.  For every
\* ledger whose movements reference existing accounts, loadStore after
\* persistStore returns an equal ledger, each balance written and read at the
\* precision of the account's currency and each amount at the precision of
\* the movement's account.
C30_PersistLoadRoundTrip == manager.pc = "ready" => Reloaded(store) = store

\* The fields of the schema of a category
SchemaFields(category) ==
  [name \in fieldNames(CATEGORY_SCHEMA) |-> category[name]]

\* What the round trip keeps: the accounts, the movements, and the schema
\* fields of the categories
C30_RoundTripOfSchemaFields ==
  manager.pc = "ready" =>
    /\ Reloaded(store).accounts = store.accounts
    /\ Reloaded(store).transactions = store.transactions
    /\ Reloaded(store).categories =
         [i \in DOMAIN store.categories |-> SchemaFields(store.categories[i])]

\* A ledger with an account in a currency of precision 0 or 8 and a category
\* has been written and read back
C30_Reloaded ==
  /\ manager.pc = "loaded"
  /\ store.accounts[2].currency = BTC
  /\ store.transactions[2].amount = 12345678
  /\ store.categories # <<>>

\* The movements an operation created or removed, and the one it was asked
\* to change
Targeted(old, new, target) ==
  ((Ids(old.transactions) \cup Ids(new.transactions))
     \ (Ids(old.transactions) \cap Ids(new.transactions))) \cup target

\* The account owns, before or after, one of the movements
OwnsOneOf(old, new, accountId, ids) ==
  \/ \E i \in DOMAIN old.transactions :
       old.transactions[i].id \in ids /\ old.transactions[i].accountId = accountId
  \/ \E i \in DOMAIN new.transactions :
       new.transactions[i].id \in ids /\ new.transactions[i].accountId = accountId

\* Every account that owns none of the movements is the record it was
KeepsOtherAccounts(old, result, target) ==
  result.ok =>
    /\ Len(result.value.accounts) = Len(old.accounts)
    /\ \A i \in DOMAIN old.accounts :
         ~OwnsOneOf(old, result.value, old.accounts[i].id,
                    Targeted(old, result.value, target))
         => result.value.accounts[i] = old.accounts[i]

\* C31: a successful createTransaction, updateTransaction, deleteTransaction
\* or bulkImportTransactions leaves every account that owns none of the
\* created, changed or removed movements exactly as it was: its reconciled
\* field, its balance and every other field.
C31_OtherAccountsKept ==
  /\ \A data \in CreateTransactionInputs :
       KeepsOtherAccounts(store, createTransaction(store, data), {})
  /\ \A id \in TxIdInputs, changes \in UpdateTransactionInputs :
       KeepsOtherAccounts(store, updateTransaction(store, id, changes), {id})
  /\ \A id \in TxIdInputs :
       KeepsOtherAccounts(store, deleteTransaction(store, id), {})
  /\ \A data \in BulkImportInputs :
       KeepsOtherAccounts(store, bulkImportTransactions(store, data), {})

\* A movement is created on one account while another account is reconciled
\* and stays so
C31_Witness ==
  \E data \in CreateTransactionInputs, i \in DOMAIN store.accounts :
    LET result == createTransaction(store, data)
    IN  /\ result.ok
        /\ store.accounts[i].id # data.accountId
        /\ store.accounts[i].reconciled # NoDate
        /\ result.value.accounts[i] = store.accounts[i]

\* after is before with the record of the given id hidden and nothing else
\* different
OnlyHidden(before, after, id) ==
  /\ Len(after) = Len(before)
  /\ \A i \in DOMAIN before :
       /\ DOMAIN after[i] = DOMAIN before[i]
       /\ \A f \in DOMAIN before[i] :
            after[i][f] = (IF before[i].id = id /\ f = "hidden" THEN TRUE
                           ELSE before[i][f])

\* C32: hideAccount and hideCategory on an existing record change only that
\* record's hidden flag to true: its reconciled field and all its other
\* fields, all movements and all other accounts and categories are
\* unchanged; on a record that does not exist they fail and give no ledger.
C32_HideOnlyHides ==
  /\ \A id \in AccountIdInputs :
       LET result == hideAccount(store, id)
       IN  IF Some(store.accounts, id)
           THEN /\ result.ok
                /\ OnlyHidden(store.accounts, result.value.accounts, id)
                /\ result.value.transactions = store.transactions
                /\ result.value.categories = store.categories
           ELSE ~result.ok /\ "value" \notin DOMAIN result
  /\ \A id \in CategoryIdInputs :
       LET result == hideCategory(store, id)
       IN  IF Some(store.categories, id)
           THEN /\ result.ok
                /\ OnlyHidden(store.categories, result.value.categories, id)
                /\ result.value.transactions = store.transactions
                /\ result.value.accounts = store.accounts
           ELSE ~result.ok /\ "value" \notin DOMAIN result

\* A reconciled account with a movement is hidden and stays reconciled
C32_Witness ==
  \E i \in DOMAIN store.accounts :
    LET result == hideAccount(store, store.accounts[i].id)
    IN  /\ store.accounts[i].reconciled # NoDate
        /\ ~store.accounts[i].hidden
        /\ \E j \in DOMAIN store.transactions :
             store.transactions[j].accountId = store.accounts[i].id
        /\ result.ok
        /\ result.value.accounts[i].hidden
        /\ result.value.accounts[i].reconciled = store.accounts[i].reconciled

Balanced(s) ==
  \A i \in DOMAIN s.accounts :
    s.accounts[i].reconciled # NoDate =>
      s.accounts[i].balance = WorkingBalance(s, s.accounts[i].id)

\* The part of C33 about the operations on movements, transfers, imports and
\* reconciliation alone: in every ledger reached from the empty one by them,
\* an account with a reconciled date has balance = working balance.
C33_BalancedWithoutUpdate == Balanced(store)

\* C33: in every ledger reached from the empty one by successful operations,
\* updateAccount included, an account whose reconciled date is not empty has
\* a stored balance equal to its working balance.
C33_ReconciledIsBalanced ==
  /\ Balanced(store)
  /\ \A id \in AccountIdInputs, changes \in UpdateAccountInputs :
       LET result == updateAccount(store, id, changes)
       IN  result.ok => Balanced(result.value)

PairsOpposed(s) ==
  \A i \in DOMAIN s.transactions, j \in DOMAIN s.transactions :
    LET A == s.transactions[i]
        B == s.transactions[j]
    IN  (A.transferPairId # NoId /\ B.id = A.transferPairId) =>
          /\ A.amount = -B.amount
          /\ A.accountId # B.accountId

\* C34: in every ledger reached from the empty one by successful operations,
\* and after one more successful operation of the engine on any of its
\* inputs, the movement a transfer member names as its pair has exactly the
\* negated amount and belongs to a different account.
C34_PairsOpposed ==
  /\ PairsOpposed(store)
  /\ \A s \in EngineStores(store) : PairsOpposed(s)

\* A transfer pair whose amount syncTransferAmount has replaced, on two
\* accounts, in a ledger that also holds a movement outside the pair
C34_Witness ==
  \E i \in DOMAIN store.transactions, j \in DOMAIN store.transactions,
     k \in DOMAIN store.transactions :
    /\ store.transactions[i].transferPairId = store.transactions[j].id
    /\ store.transactions[i].transferPairId # NoId
    /\ store.transactions[i].amount = -2
    /\ store.transactions[j].amount = 2
    /\ store.transactions[i].accountId # store.transactions[j].accountId
    /\ store.transactions[k].transferPairId = NoId

\* The movement has the date, amount and trimmed description of the candidate
SameEntry(input, t) ==
  /\ t.date = input.date
  /\ t.amount = input.amount
  /\ t.description = Trim(input.description)

\* The positions of the ledger s at which an account other than accountId
\* holds a movement with the date, amount and description of the candidate
ElsewhereAt(s, accountId, input) ==
  {k \in DOMAIN s.transactions :
     /\ s.transactions[k].accountId # accountId
     /\ SameEntry(input, s.transactions[k])}

\* The positions among the added movements that hold the candidate's entry
AddedAt(added, input) == {k \in DOMAIN added : SameEntry(input, added[k])}

\* C35: deduplication of a bulk import works inside one batch and is scoped
\* to the target account.  Two candidates of one batch with the same key, the
\* first of which the ledger gives no reason to skip, yield exactly one
\* movement; and a candidate that is valid, not dated before the reconciled
\* date and not a duplicate of a movement of the target account is imported
\* whatever movements the other accounts hold.
C35_DedupInBatchPerAccount ==
  \A data \in BulkImportInputs :
    Some(store.accounts, data.accountId) =>
      LET result == bulkImportTransactions(store, data)
          added == Added(store, result)
      IN  /\ result.ok
          /\ \A i, j \in DOMAIN data.transactions :
               /\ i < j
               /\ CandidateKey(data.accountId, data.transactions[i])
                    = CandidateKey(data.accountId, data.transactions[j])
               /\ ~Skipped(store, data.accountId, data.transactions[i])
               => Cardinality(AddedAt(added, data.transactions[i])) = 1
          /\ \A i \in DOMAIN data.transactions :
               ~Skipped(store, data.accountId, data.transactions[i]) =>
                 AddedAt(added, data.transactions[i]) # {}

\* A batch of two candidates with the same key is imported onto an account
\* that holds no such movement while another account holds one: exactly one
\* movement is added
C35_Witness ==
  \E data \in BulkImportInputs :
    /\ Some(store.accounts, data.accountId)
    /\ Len(data.transactions) = 2
    /\ CandidateKey(data.accountId, data.transactions[1])
         = CandidateKey(data.accountId, data.transactions[2])
    /\ ~Skipped(store, data.accountId, data.transactions[1])
    /\ ElsewhereAt(store, data.accountId, data.transactions[1]) # {}
    /\ Len(Added(store, bulkImportTransactions(store, data))) = 1

\* The call whose persistStore threw, before its promise rejects
FailedLast(c) == manager.calls[c].pc = "threw"

\* C36: when persistStore fails with an I/O error during mutate, getStore
\* afterwards returns the store from before the mutation, which is what the
\* data files hold.
C36_FailedPersistKeepsStore ==
  \A c \in DOMAIN manager.calls :
    FailedLast(c) =>
      /\ store = manager.calls[c].current
      /\ DiskStore(files) = store

\* What the code does instead: after a failed persistStore the store in
\* memory is the result of the mutation
C36_FailedPersistKeepsResult ==
  \A c \in DOMAIN manager.calls :
    FailedLast(c) => store = manager.calls[c].persisting

\* A persistStore threw on its first file: memory holds the mutation's result
\* and the files hold the store from before it
C36_Witness ==
  \E c \in DOMAIN manager.calls :
    /\ FailedLast(c)
    /\ manager.calls[c].current # manager.calls[c].persisting
    /\ DiskStore(files) = manager.calls[c].current

\* The store after the requests of the calls, applied one after another to s
\* in the order of the sequence; NoStore when one of them fails
RECURSIVE Replay(_, _)
Replay(s, calls) ==
  IF calls = <<>> THEN s
  ELSE LET result == Run(s, Head(calls).request)
       IN  IF result.ok THEN Replay(result.value, Tail(calls)) ELSE NoStore

\* C37: no update is lost in memory.  While the server runs, a call to
\* mutate applies its operation to the store in memory as the calls begun
\* before it left it, whether or not they have finished persisting, and a
\* successful one leaves its result in memory; no other step of any call
\* writes the store.  So the store in memory is always the result of the
\* successful operations in the order in which their calls began.
C37_NoLostUpdate ==
  [][(manager.pc = "ready" /\ manager'.pc = "ready") =>
       IF Began
       THEN /\ NewCall.current = store
            /\ NewCall.ok => store' = Run(store, NewCall.request).value
            /\ ~NewCall.ok => store' = store
       ELSE store' = store]_vars

\* Two successful calls overlap: the second began while the first was
\* writing its files, and the store in memory holds the work of both
C37_Witness ==
  /\ Len(manager.calls) = 2
  /\ \A c \in DOMAIN manager.calls :
       manager.calls[c].ok /\ manager.calls[c].pc \in DataFiles
  /\ manager.calls[1].pc # FileOrder[1]
  /\ manager.calls[2].current = manager.calls[1].persisting
  /\ manager.calls[2].persisting # manager.calls[1].persisting
  /\ store = Replay(manager.calls[1].current, manager.calls)

\* C38: with the mutations applied one at a time, at every point at which
\* the process can die inside persistStore (before accounts.csv is replaced,
\* after it, after transactions.csv too) every movement in the files names an
\* account in the files, and its categoryId is empty or names a category in
\* the files.
C38_CrashKeepsReferences ==
  manager.pc = "crashed" =>
    /\ AccountIntegrity(DiskStore(files))
    /\ CategoryIntegrity(DiskStore(files))

\* The process died while deleteCategory was being persisted, after
\* transactions.csv and before categories.csv: the files hold the category
\* and a movement that no longer names it
C38_Witness ==
  /\ manager.pc = "crashed"
  /\ \E c \in DOMAIN manager.calls :
       /\ manager.calls[c].request.op = "deleteCategory"
       /\ manager.calls[c].pc = "categories"
  /\ DiskStore(files).categories # <<>>
  /\ DiskStore(files).transactions # <<>>
  /\ DiskStore(files).transactions[1].categoryId = NoId

====
